---- MODULE Spec2Model ----
(***************************************************************************)
(* Forecast job pipeline of the dairy-herd forecasting service: the job    *)
(* store (ForecastJobRepository), the work queue, the worker pipeline      *)
(* (run_forecast_job), the supervisor start-up sweep (requeue_stuck_jobs   *)
(* followed by the enqueue loop of worker.main), the progress bus and the  *)
(* stream endpoint.  Every job-store call is one database transaction and  *)
(* is one step of the model; a pipeline execution is a sequence of steps.  *)
(***************************************************************************)
EXTENDS Integers, Sequences, FiniteSets, TLC

\* ---------------------------------------------------------------- bounds
Jobs == {"j1", "j2"}
\* the job ids the submission API hands out in Spec
Submitted == {"j1"}
Workers == {"w1", "w2"}

\* params.mc_runs of the submitted scenarios
McRuns == 2
\* settings.mc_batch_size used by the runs of the model
BatchSize == 1
\* the clock advances in steps of TickMinutes up to MaxClock
TickMinutes == 30
MaxClock == 60
\* number of supervisor start-ups (worker.main) in one behaviour
MaxStarts == 3

\* ------------------------------------------------------- program constants
stuck_job_timeout_minutes == 30
InitialProgress == 10
\* a NULL timestamp column
NoTime == -1
\* a NULL text column (error_message) and a NULL object key
NoText == "None"
NoKey == <<>>

QUEUED == "queued"
RUNNING == "running"
SUCCEEDED == "succeeded"
FAILED == "failed"
CANCELED == "canceled"
\* no row with that job_id in the table
ABSENT == "absent"

TerminalStatuses == {SUCCEEDED, FAILED, CANCELED}

ResultKey(j) == <<"results", j, "json">>
CsvKey(j) == <<"exports", j, "csv">>
XlsxKey(j) == <<"exports", j, "xlsx">>
ArtifactKeys(j) == {ResultKey(j), CsvKey(j), XlsxKey(j)}

Max(a, b) == IF a >= b THEN a ELSE b
Min(a, b) == IF a <= b THEN a ELSE b
\* occurrences of x in seq
Count(seq, x) == Cardinality({i \in DOMAIN seq : seq[i] = x})

VARIABLES
    now,          \* now_utc(), in minutes
    busUp,        \* the bus accepts a publish (Redis is reachable)
    rows,         \* the forecast_jobs table: job id -> row
    queue,        \* the "forecast" work queue: job ids in delivery order
    store,        \* object keys present in the results and exports buckets
    published,    \* per job channel: the events published so far
    pending,      \* jobs created by create_forecast_job and not yet enqueued
    pc,           \* per worker process: the place of its control
    wjob,         \* per worker: the job id handed to run_forecast_job
    wdone,        \* per worker: completed_runs of the running run_forecast
    werr,         \* per worker: the message of the pending mark_failed
    wtry,         \* per worker: failed attempts of the _retry in progress
    stuck,        \* per worker: items of find_stuck_running still to requeue
    requeued,     \* per worker: the list returned by requeue_stuck_jobs
    starts,       \* number of supervisor start-ups so far
    wasSucceeded, \* history: jobs whose row has been succeeded at some time
    swept,        \* history: jobs a start-up sweep has requeued
    rows0,        \* history: the table of the initial state
    lastCall,     \* history: the last direct call of a job-store operation
    cpc,          \* stream endpoint: the place of its control
    cjob,         \* stream endpoint: the job id of the connection
    subscribed,   \* stream endpoint: subscribed to the channel of cjob
    inbox,        \* stream endpoint: bus messages received and not yet sent
    csent,        \* stream endpoint: types of the events sent to the client
    lastRequest,  \* submission API: the last POST /forecast/jobs and its answer
    params_json,  \* the params_json column of the forecast_jobs table
    owner_user_id, \* the owner_user_id column of the forecast_jobs table
    bulk,         \* bulk_delete_my_history_jobs: its request, place and response
    fpc,          \* orchestrator: the place of its control
    fin,          \* orchestrator: the arguments of the running execution
    world,        \* Simulation.run: hazard table, seed -> animals culled
    _CULL_CACHE,  \* the hazard cache of the worker process: file path -> table
    ftarget_dates, \* orchestrator: target_dates of the execution
    fruns,        \* orchestrator: runs, the rows of the completed runs
    fcompleted_runs, \* orchestrator: completed_runs
    fresult,      \* orchestrator: the last ForecastResult built
    ferror,       \* orchestrator: the message of the ValueError it raised
    executions,   \* number of orchestrator executions started in the process
    sim,          \* one Simulation of herd_m5: its fields, and the day it is at
    run,          \* _run_seed_job: its arguments and the outputs it built
    engine,       \* one SimulationEngine: its queue, and the events it handled
    samplers,     \* build_theoretical_samplers_from_empirical: a call and its outcome
    cull_policy   \* CullingPolicy: a dataset, its estimate and a sampled animal

vars == <<now, busUp, rows, queue, store, published, pending, pc, wjob, wdone,
          werr, wtry, stuck, requeued, starts, wasSucceeded, swept, rows0,
          lastCall, cpc, cjob, subscribed, inbox, csent, lastRequest,
          params_json, owner_user_id, bulk, fpc, fin, world, _CULL_CACHE, ftarget_dates, fruns,
          fcompleted_runs, fresult, ferror, executions, sim, run, engine,
          samplers, cull_policy>>

workerVars == <<pc, wjob, wdone, werr, wtry, stuck, requeued>>
histVars == <<wasSucceeded, swept, rows0, lastCall>>
clientVars == <<cpc, cjob, subscribed, inbox, csent>>
apiVars == <<lastRequest, params_json, owner_user_id, bulk>>
forecastVars == <<fpc, fin, world, _CULL_CACHE, ftarget_dates, fruns,
                  fcompleted_runs, fresult, ferror, executions>>
simVars == <<sim, run>>
\* the state of the code that is called directly
legacyVars == <<engine, samplers, cull_policy>>
directVars == <<simVars, legacyVars>>

\* ------------------------------------------------------------- job store
AbsentRow ==
    [status |-> ABSENT, progress_pct |-> 0, completed_runs |-> 0,
     total_runs |-> 0, error_message |-> NoText,
     result_object_key |-> NoKey, csv_object_key |-> NoKey,
     xlsx_object_key |-> NoKey, started_at |-> NoTime,
     finished_at |-> NoTime, deleted_at |-> NoTime, mc_runs |-> 0]

\* ForecastJobRepository.create
create(mc_runs) ==
    [AbsentRow EXCEPT !.status = QUEUED, !.progress_pct = 0,
                      !.completed_runs = 0, !.total_runs = mc_runs,
                      !.mc_runs = mc_runs]

\* a row of the table as an operator may have left it: canceled is written
\* by no operation of the repository, the status column admits it
CanceledRow == [create(McRuns) EXCEPT !.status = CANCELED]

\* ForecastJobRepository.get: None for a missing or soft-deleted row
get(row) == row.status # ABSENT /\ row.deleted_at = NoTime

mark_running(row, progress_pct, total_runs, t) ==
    IF ~get(row) THEN row
    ELSE IF row.status \in {SUCCEEDED, FAILED, CANCELED} THEN row
    ELSE [row EXCEPT !.status = RUNNING, !.progress_pct = progress_pct,
                     !.completed_runs = 0, !.total_runs = Max(0, total_runs),
                     !.started_at = t]

update_progress(row, progress_pct, completed_runs, total_runs) ==
    IF ~get(row) THEN row
    ELSE IF row.status # RUNNING THEN row
    ELSE [row EXCEPT !.progress_pct = Max(0, Min(100, progress_pct)),
                     !.completed_runs = Max(0, completed_runs),
                     !.total_runs = Max(0, total_runs)]

\* mark_failed that forgets the message
mark_failed_drops_message(row, message, t) ==
    IF ~get(row) THEN row
    ELSE IF row.status \in {SUCCEEDED, FAILED, CANCELED} THEN row
    ELSE [row EXCEPT !.status = FAILED, !.finished_at = t]

mark_failed(row, message, t) ==
    IF ~get(row) THEN row
    ELSE IF row.status \in {SUCCEEDED, FAILED, CANCELED} THEN row
    ELSE [row EXCEPT !.status = FAILED, !.error_message = message,
                     !.finished_at = t]

\* mark_succeeded without its terminal-state guard
mark_succeeded_unguarded(row, result_object_key, csv_object_key, xlsx_object_key, t) ==
    IF ~get(row) THEN row
    ELSE [row EXCEPT !.status = SUCCEEDED, !.progress_pct = 100,
                     !.completed_runs = Max(row.completed_runs, row.total_runs),
                     !.error_message = NoText,
                     !.result_object_key = result_object_key,
                     !.csv_object_key = csv_object_key,
                     !.xlsx_object_key = xlsx_object_key,
                     !.finished_at = t]

mark_succeeded(row, result_object_key, csv_object_key, xlsx_object_key, t) ==
    IF ~get(row) THEN row
    ELSE IF row.status \in {SUCCEEDED, FAILED, CANCELED} THEN row
    ELSE [row EXCEPT !.status = SUCCEEDED, !.progress_pct = 100,
                     !.completed_runs = Max(row.completed_runs, row.total_runs),
                     !.error_message = NoText,
                     !.result_object_key = result_object_key,
                     !.csv_object_key = csv_object_key,
                     !.xlsx_object_key = xlsx_object_key,
                     !.finished_at = t]

\* find_stuck_running that also takes a job started exactly at the threshold
is_stuck_running_inclusive(row, timeout_minutes, t) ==
    /\ row.status = RUNNING
    /\ row.started_at # NoTime
    /\ row.started_at <= t - timeout_minutes
    /\ row.deleted_at = NoTime

\* the WHERE clause of find_stuck_running
is_stuck_running(row, timeout_minutes, t) ==
    /\ row.status = RUNNING
    /\ row.started_at # NoTime
    /\ row.started_at < t - timeout_minutes
    /\ row.deleted_at = NoTime

find_stuck_running(timeout_minutes) ==
    {j \in Jobs : is_stuck_running(rows[j], timeout_minutes, now)}

\* requeue that resets the counters and forgets the status
requeue_keeps_status(row) ==
    IF ~get(row) THEN row
    ELSE [row EXCEPT !.progress_pct = 0,
                     !.completed_runs = 0, !.total_runs = row.mc_runs,
                     !.error_message = NoText, !.started_at = NoTime,
                     !.finished_at = NoTime]

requeue(row) ==
    IF ~get(row) THEN row
    ELSE [row EXCEPT !.status = QUEUED, !.progress_pct = 0,
                     !.completed_runs = 0, !.total_runs = row.mc_runs,
                     !.error_message = NoText, !.started_at = NoTime,
                     !.finished_at = NoTime]

soft_delete_for_owner(row, t) ==
    IF ~get(row) THEN row ELSE [row EXCEPT !.deleted_at = t]

\* ------------------------------------------------------------------- bus
JobEvent(type, row) ==
    [type |-> type, status |-> row.status, progress_pct |-> row.progress_pct,
     error_message |-> IF type = "job_failed" THEN row.error_message ELSE NoText]

\* publish_job_event: ok = FALSE is the publish that raised and returned False
publish_job_event(j, event, ok) ==
    /\ published' = IF ok THEN [published EXCEPT ![j] = @ \cup {event}]
                    ELSE published
    /\ inbox' = IF ok /\ subscribed /\ cjob = j THEN Append(inbox, event.type)
                ELSE inbox

NoPublish == UNCHANGED <<published, inbox>>

\* ----------------------------------------------- submission API: schema
\* JSON null, and None of the validated model
None == "None"

\* value.strip() is empty
blank(value) == \A i \in 1..Len(value) : SubSeq(value, i, i) = " "

empty_expected_calving_date_to_none(value) ==
    IF value # None /\ blank(value) THEN None ELSE value

empty_future_date_to_none(value) ==
    IF value # None /\ blank(value) THEN None ELSE value

\* a days_pregnant that came as a string and is kept as it came
empty_days_pregnant_kept(value) == value

\* PurchaseItem.empty_days_pregnant_to_none
empty_days_pregnant_to_none(value) ==
    IF value # None /\ blank(value) THEN None ELSE value

Digits == "0123456789"
is_digits(value) ==
    /\ Len(value) > 0
    /\ \A i \in 1..Len(value) :
          \E d \in 1..10 : SubSeq(value, i, i) = SubSeq(Digits, d, d)

RECURSIVE int(_)
\* int of a string of digits
int(value) ==
    IF Len(value) = 0 THEN 0
    ELSE 10 * int(SubSeq(value, 1, Len(value) - 1))
           + (CHOOSE d \in 0..9 :
                SubSeq(value, Len(value), Len(value)) = SubSeq(Digits, d + 1, d + 1))

\* days_pregnant: Optional[int] = Field(default=None, ge=0, le=280)
days_pregnant_Field(value) ==
    value = None \/ (is_digits(value) /\ int(value) >= 0 /\ int(value) <= 280)

\* count: int = Field(ge=1, le=5000)
count_Field(value) == value >= 1 /\ value <= 5000

\* date.day of an ISO date
day(value) == SubSeq(value, 9, 10)

\* validate_exclusive that rejects only an item with neither field
validate_exclusive_allows_both(item) ==
    LET has_expected == item.expected_calving_date # None
        has_days == item.days_pregnant # None
    IN  ~(~has_expected /\ ~has_days)

\* PurchaseItem.validate_exclusive: TRUE when no ValueError is raised
validate_exclusive(item) ==
    LET has_expected == item.expected_calving_date # None
        has_days == item.days_pregnant # None
    IN  /\ ~(has_expected /\ has_days)
        /\ ~(~has_expected /\ ~has_days)

\* the fields of a PurchaseItem after its "before" validators
PurchaseItem(item) ==
    [item EXCEPT
       !.expected_calving_date = empty_expected_calving_date_to_none(@),
       !.days_pregnant = empty_days_pregnant_to_none(@)]

\* ScenarioParams.validate_policy: TRUE when no ValueError is raised
validate_policy(params) ==
    /\ ~(params.purchase_policy # "manual" /\ Len(params.purchases) > 0)
    /\ ~(params.future_date # None /\ day(params.future_date) # "01")

\* the fields of ScenarioParams after the "before" validators
ScenarioParams(body) ==
    [body EXCEPT
       !.future_date = empty_future_date_to_none(@),
       !.purchases = [i \in DOMAIN body.purchases |-> PurchaseItem(body.purchases[i])]]

\* the request body parses into a ScenarioParams
Validates(body) ==
    /\ \A i \in DOMAIN body.purchases :
          /\ count_Field(ScenarioParams(body).purchases[i].count)
          /\ days_pregnant_Field(ScenarioParams(body).purchases[i].days_pregnant)
          /\ validate_exclusive(ScenarioParams(body).purchases[i])
    /\ validate_policy(ScenarioParams(body))

\* request bodies of the model
MaxRequests == 2
ItemArgs ==
    [date_in : {"2026-04-01"}, count : {1},
     expected_calving_date : {None, "", "2026-09-01"},
     days_pregnant : {None, " ", "100", "300"}]
BodyArgs ==
    [dataset_id : {"d1"}, mc_runs : {McRuns},
     purchase_policy : {"manual", "auto_counter", "auto_forecast"},
     future_date : {None, "", "2026-03-01", "2026-03-15"},
     purchases : {<<>>} \cup {<<item>> : item \in ItemArgs}]
\* the body the pipeline specifications submit
DefaultBody ==
    [dataset_id |-> "d1", mc_runs |-> McRuns, purchase_policy |-> "manual",
     future_date |-> None, purchases |-> <<>>]
\* no params_json: there is no row
NoParams == [dataset_id |-> None]

\* None where an object, a list or a date is expected
NoneObj == [none |-> TRUE]

\* user.user_id of the authenticated requests, and another user
CurrentUser == "u1"
Users == {"u1", "u2"}

\* bulk_delete_my_history_jobs has not been called
NoBulk ==
    [pc |-> "idle", call |-> 0, ids |-> <<>>, i |-> 1, deleted_ids |-> <<>>,
     skipped |-> <<>>, previous |-> NoneObj]

\* the code that is called directly has not been called
IdleLegacy == engine = NoneObj /\ samplers = NoneObj /\ cull_policy = NoneObj
IdleDirect == sim = NoneObj /\ run = NoneObj /\ IdleLegacy

\* no request has been answered, no row has a params_json
InitApi ==
    /\ lastRequest = [n |-> 0, body |-> DefaultBody, dataset_row |-> "row",
                      status_code |-> 0]
    /\ params_json = [j \in Jobs |-> IF rows[j].status = ABSENT THEN NoParams
                                     ELSE ScenarioParams(DefaultBody)]
    /\ owner_user_id = [j \in Jobs |-> IF rows[j].status = ABSENT THEN None
                                       ELSE CurrentUser]
    /\ bulk = NoBulk

\* ------------------------------------------- orchestrator: its arguments
\* the uploaded CSV files
Datasets == {"dA", "dB"}
\* the names NamedTemporaryFile hands out
TempNames == {"tmp1", "tmp2"}
\* params.horizon_months ranges over 1..MaxHorizon
MaxHorizon == 2
\* orchestrator executions in one worker process
MaxExecutions == 2
\* number of runs handed to the aggregation called directly
AggRuns == 3

NoDate == <<>>
\* None where a number is expected (avg_days_in_milk of an empty milking group)
NoNumber == -1

master_seed == 42
\* all_seeds: params.seed + i * 9973
seed_of(i) == master_seed + i * 9973
Seeds == {seed_of(i) : i \in 0..(McRuns - 1)}

\* params of the orchestrator: validated ScenarioParams, dates as <<y, m, d>>
ParamsArgs ==
    [horizon_months : 1..MaxHorizon,
     future_date : {NoDate, <<2025, 11, 1>>, <<2026, 1, 1>>, <<2026, 4, 1>>},
     seed : {master_seed}, mc_runs : 1..McRuns,
     confidence_central : {90}]
\* how ProcessPoolExecutor starts its processes: the code passes no
\* mp_context, so the platform default applies ("fork", or "spawn" and
\* "forkserver", which both start from a newly imported module)
StartMethods == {"fork", "spawn"}
DefaultArgs ==
    [csv |-> "dA", temp_path |-> "tmp1", parallel_enabled |-> FALSE,
     batch_size |-> BatchSize, start_method |-> "fork",
     params |-> [horizon_months |-> 1, future_date |-> NoDate,
                 seed |-> master_seed, mc_runs |-> McRuns,
                 confidence_central |-> 90]]

\* the worker process has not called the orchestrator
IdleForecast ==
    /\ fpc = "idle"
    /\ fin = DefaultArgs
    /\ world = [h \in Datasets, seed \in Seeds |-> 0]
    /\ _CULL_CACHE = [path \in TempNames |-> None]
    /\ ftarget_dates = <<>>
    /\ fruns = <<>>
    /\ fcompleted_runs = 0
    /\ fresult = NoneObj
    /\ ferror = NoText
    /\ executions = 0

\* ------------------------------------------------------------------ init
InitPipeline ==
    /\ now = 0
    /\ busUp = TRUE
    /\ rows \in [Jobs -> {AbsentRow, CanceledRow}]
    /\ \A j \in Jobs \ Submitted : rows[j] = AbsentRow
    /\ \E q \in [1..Cardinality({j \in Jobs : rows[j].status = CANCELED}) -> Jobs] :
          /\ \A j \in Jobs : rows[j].status = CANCELED =>
                                \E i \in DOMAIN q : q[i] = j
          /\ \A i \in DOMAIN q : rows[q[i]].status = CANCELED
          /\ queue = q
    /\ store = {}
    /\ published = [j \in Jobs |-> {}]
    /\ pending = {}
    /\ pc = [w \in Workers |-> "down"]
    /\ wjob = [w \in Workers |-> "none"]
    /\ wdone = [w \in Workers |-> 0]
    /\ werr = [w \in Workers |-> NoText]
    /\ wtry = [w \in Workers |-> 0]
    /\ stuck = [w \in Workers |-> {}]
    /\ requeued = [w \in Workers |-> <<>>]
    /\ starts = 0
    /\ wasSucceeded = {}
    /\ swept = {}
    /\ rows0 = rows
    /\ lastCall = [op |-> "none", before |-> AbsentRow, returned |-> "None"]
    /\ cpc = "idle"
    /\ cjob = "none"
    /\ subscribed = FALSE
    /\ inbox = <<>>
    /\ csent = <<>>
    /\ InitApi

Init == InitPipeline /\ IdleForecast /\ IdleDirect


\* ---------------------------------------------------------- submission API
\* create_forecast_job up to the commit of ForecastJobRepository.create, or
\* up to its error response; dataset_row is what DatasetRepository.get returns
Submit(j, body, dataset_row) ==
    /\ lastRequest.n < MaxRequests
    /\ IF ~Validates(body)
         THEN /\ lastRequest' = [n |-> lastRequest.n + 1, body |-> body,
                                 dataset_row |-> dataset_row, status_code |-> 422]
              /\ UNCHANGED <<rows, pending, params_json, owner_user_id>>
         ELSE IF dataset_row = "None"
         THEN /\ lastRequest' = [n |-> lastRequest.n + 1, body |-> body,
                                 dataset_row |-> dataset_row, status_code |-> 404]
              /\ UNCHANGED <<rows, pending, params_json, owner_user_id>>
         ELSE /\ rows[j].status = ABSENT
              /\ rows' = [rows EXCEPT ![j] = create(ScenarioParams(body).mc_runs)]
              /\ params_json' = [params_json EXCEPT ![j] = ScenarioParams(body)]
              /\ owner_user_id' = [owner_user_id EXCEPT ![j] = CurrentUser]
              /\ pending' = pending \cup {j}
              /\ lastRequest' = [n |-> lastRequest.n + 1, body |-> body,
                                 dataset_row |-> dataset_row, status_code |-> 202]
    /\ UNCHANGED <<now, busUp, queue, store, published, starts, histVars>>
    /\ UNCHANGED workerVars
    /\ UNCHANGED clientVars
    /\ UNCHANGED bulk
    /\ UNCHANGED <<forecastVars, directVars>>

\* a valid submission for a known dataset
CreateJob(j) ==
    /\ j \in Submitted
    /\ rows[j].status = ABSENT
    /\ Submit(j, DefaultBody, "row")

\* create_forecast_job: enqueue_forecast_job(job.job_id) returns
EnqueueJob(j) ==
    /\ j \in pending
    /\ queue' = Append(queue, j)
    /\ pending' = pending \ {j}
    /\ UNCHANGED <<now, busUp, rows, store, published, starts, histVars>>
    /\ UNCHANGED workerVars
    /\ UNCHANGED clientVars
    /\ UNCHANGED <<apiVars, forecastVars, directVars>>

\* create_forecast_job: enqueue_forecast_job raises (the queue is unreachable)
\* or the request process dies after the commit; the row stays
EnqueueFails(j) ==
    /\ j \in pending
    /\ pending' = pending \ {j}
    /\ UNCHANGED <<now, busUp, rows, queue, store, published, starts, histVars>>
    /\ UNCHANGED workerVars
    /\ UNCHANGED clientVars
    /\ UNCHANGED <<apiVars, forecastVars, directVars>>

\* delete_my_history_job: best-effort removal of the objects, then soft delete
DeleteJob(j) ==
    /\ get(rows[j])
    /\ rows[j].status \notin {QUEUED, RUNNING}
    /\ \E failed \in SUBSET {rows[j].result_object_key, rows[j].csv_object_key,
                             rows[j].xlsx_object_key} :
          store' = store \ ({rows[j].result_object_key, rows[j].csv_object_key,
                             rows[j].xlsx_object_key} \ failed)
    /\ rows' = [rows EXCEPT ![j] = soft_delete_for_owner(@, now)]
    /\ UNCHANGED <<now, busUp, queue, published, pending, starts, histVars>>
    /\ UNCHANGED workerVars
    /\ UNCHANGED clientVars
    /\ UNCHANGED <<apiVars, forecastVars, directVars>>

\* the wall clock
Tick ==
    /\ now + TickMinutes <= MaxClock
    /\ now' = now + TickMinutes
    /\ UNCHANGED <<busUp, rows, queue, store, published, pending, starts,
                   histVars>>
    /\ UNCHANGED workerVars
    /\ UNCHANGED clientVars
    /\ UNCHANGED <<apiVars, forecastVars, directVars>>

\* ------------------------------------------------------- worker supervisor
\* the worker leaves run_forecast_job and waits for the next job id
Return(w) ==
    /\ pc' = [pc EXCEPT ![w] = "idle"]
    /\ wjob' = [wjob EXCEPT ![w] = "none"]
    /\ wdone' = [wdone EXCEPT ![w] = 0]
    /\ werr' = [werr EXCEPT ![w] = NoText]
    /\ wtry' = [wtry EXCEPT ![w] = 0]

\* worker.main starts: requeue_stuck_jobs reads find_stuck_running
Start(w) ==
    /\ pc[w] = "down"
    /\ starts < MaxStarts
    /\ starts' = starts + 1
    /\ LET found == find_stuck_running(stuck_job_timeout_minutes) IN
          /\ stuck' = [stuck EXCEPT ![w] = found]
          /\ pc' = [pc EXCEPT ![w] = IF found = {} THEN "idle" ELSE "sweep"]
    /\ UNCHANGED <<now, busUp, rows, queue, store, published, pending, histVars,
                   wjob, wtry, wdone, werr, requeued>>
    /\ UNCHANGED clientVars
    /\ UNCHANGED <<apiVars, forecastVars, directVars>>

\* requeue_stuck_jobs: one turn of the loop over the stuck items
SweepRequeue(w, j) ==
    /\ pc[w] = "sweep"
    /\ j \in stuck[w]
    /\ rows' = [rows EXCEPT ![j] = requeue(@)]
    /\ stuck' = [stuck EXCEPT ![w] = @ \ {j}]
    /\ requeued' = [requeued EXCEPT ![w] = Append(@, j)]
    /\ pc' = [pc EXCEPT ![w] = IF stuck[w] = {j} THEN "enqueue" ELSE "sweep"]
    /\ swept' = swept \cup {j}
    /\ UNCHANGED <<now, busUp, queue, store, published, pending, starts, wasSucceeded,
                   rows0, lastCall, wjob, wtry, wdone, werr>>
    /\ UNCHANGED clientVars
    /\ UNCHANGED <<apiVars, forecastVars, directVars>>

\* worker.main: one turn of the loop that enqueues the requeued ids
SweepEnqueue(w) ==
    /\ pc[w] = "enqueue"
    /\ queue' = Append(queue, Head(requeued[w]))
    /\ requeued' = [requeued EXCEPT ![w] = Tail(@)]
    /\ pc' = [pc EXCEPT ![w] = IF Len(requeued[w]) = 1 THEN "idle" ELSE "enqueue"]
    /\ UNCHANGED <<now, busUp, rows, store, published, pending, starts, histVars,
                   wjob, wtry, wdone, werr, stuck>>
    /\ UNCHANGED clientVars
    /\ UNCHANGED <<apiVars, forecastVars, directVars>>

\* the worker process dies, whatever it was doing
Crash(w) ==
    /\ pc[w] # "down"
    /\ starts < MaxStarts
    /\ pc' = [pc EXCEPT ![w] = "down"]
    /\ wjob' = [wjob EXCEPT ![w] = "none"]
    /\ wdone' = [wdone EXCEPT ![w] = 0]
    /\ werr' = [werr EXCEPT ![w] = NoText]
    /\ wtry' = [wtry EXCEPT ![w] = 0]
    /\ stuck' = [stuck EXCEPT ![w] = {}]
    /\ requeued' = [requeued EXCEPT ![w] = <<>>]
    /\ UNCHANGED <<now, busUp, rows, queue, store, published, pending, starts,
                   histVars>>
    /\ UNCHANGED clientVars
    /\ UNCHANGED <<apiVars, forecastVars, directVars>>

\* worker.work(): the queue hands the next job id to run_forecast_job
Dequeue(w) ==
    /\ pc[w] = "idle"
    /\ queue # <<>>
    /\ wjob' = [wjob EXCEPT ![w] = Head(queue)]
    /\ queue' = Tail(queue)
    /\ pc' = [pc EXCEPT ![w] = "entry"]
    /\ UNCHANGED <<now, busUp, rows, store, published, pending, starts, histVars,
                   wdone, werr, wtry, stuck, requeued>>
    /\ UNCHANGED clientVars
    /\ UNCHANGED <<apiVars, forecastVars, directVars>>

\* ------------------------------------------------------ run_forecast_job
\* lines 42-46: existing = jobs.get(...); the early returns
Entry(w) ==
    /\ pc[w] = "entry"
    /\ IF ~get(rows[wjob[w]]) \/ rows[wjob[w]].status \in {SUCCEEDED, FAILED}
         THEN Return(w)
         ELSE /\ pc' = [pc EXCEPT ![w] = "mark_running"]
              /\ UNCHANGED <<wjob, wtry, wdone, werr>>
    /\ UNCHANGED <<now, busUp, rows, queue, store, published, pending, starts,
                   histVars, stuck, requeued>>
    /\ UNCHANGED clientVars
    /\ UNCHANGED <<apiVars, forecastVars, directVars>>

\* the f-string of line 179
InternalError(exc) == "INTERNAL_ERROR: " \o exc
\* the missing dataset row left to the handler of line 178
DatasetNotFound_generic == InternalError("dataset metadata missing")
DatasetNotFound == "DATASET_NOT_FOUND: dataset metadata missing"
DatasetObjectMissing == "DATASET_OBJECT_MISSING: dataset object missing in storage"

\* an exception raised inside the try block reaches the handler of line 178
Raise(w, exc) ==
    /\ pc' = [pc EXCEPT ![w] = "mark_failed"]
    /\ werr' = [werr EXCEPT ![w] = InternalError(exc)]
    /\ wtry' = [wtry EXCEPT ![w] = 0]

\* publish_job_event that lets the exception of the bus client through
publish_returns_unguarded(ok) == IF ok THEN "True" ELSE "raise"

\* publish_job_event, seen by its caller: True, or False when the bus client
\* raised (lines 31-33)
publish_returns(ok) == IF ok THEN "True" ELSE "False"

\* lines 48-63: mark_running and the first job_progress event
MarkRunning(w) ==
    /\ pc[w] = "mark_running"
    /\ LET j == wjob[w]
           job_row == mark_running(rows[j], InitialProgress, rows[j].mc_runs, now)
       IN /\ rows' = [rows EXCEPT ![j] = job_row]
          /\ IF get(job_row)
               THEN /\ publish_job_event(j, JobEvent("job_progress", job_row), busUp)
                    /\ IF publish_returns(busUp) = "raise"
                         THEN Raise(w, "publish")
                         ELSE /\ pc' = [pc EXCEPT ![w] = "load"]
                              /\ UNCHANGED <<werr, wtry>>
               ELSE /\ NoPublish
                    /\ pc' = [pc EXCEPT ![w] = "load"]
                    /\ UNCHANGED <<werr, wtry>>
    /\ UNCHANGED <<now, busUp, queue, store, pending, starts, histVars,
                   wjob, wdone, stuck, requeued>>
    /\ UNCHANGED <<cpc, cjob, subscribed, csent>>
    /\ UNCHANGED <<apiVars, forecastVars, directVars>>

\* lines 65-81: datasets.get(params.dataset_id)
LoadDataset(w) ==
    /\ pc[w] = "load"
    /\ \E dataset_row \in {"row", "None"} :
          IF dataset_row = "None"
            THEN /\ pc' = [pc EXCEPT ![w] = "mark_failed"]
                 /\ werr' = [werr EXCEPT ![w] = DatasetNotFound]
            ELSE /\ pc' = [pc EXCEPT ![w] = "fetch"]
                 /\ UNCHANGED werr
    /\ UNCHANGED <<now, busUp, rows, queue, store, published, pending, starts,
                   histVars, wjob, wtry, wdone, stuck, requeued>>
    /\ UNCHANGED clientVars
    /\ UNCHANGED <<apiVars, forecastVars, directVars>>

retries == 3

\* _retry that compares the attempt with retries instead of retries - 1
_retry_one_more(attempt, outcome) ==
    IF outcome = "ok" THEN "return"
    ELSE IF attempt = retries THEN "raise"
    ELSE "sleep"

\* _retry: what the loop does after the attempt numbered attempt (from 0)
\* ended with outcome
_retry(attempt, outcome) ==
    IF outcome = "ok" THEN "return"
    ELSE IF attempt = retries - 1 THEN "raise"
    ELSE "sleep"

\* lines 83-104: one attempt of _retry(get_bytes), then load_dataset_df
FetchDataset(w) ==
    /\ pc[w] = "fetch"
    /\ \E outcome \in {"ok", "S3Error", "error"} :
          CASE _retry(wtry[w], outcome) = "return" ->
                  /\ wtry' = [wtry EXCEPT ![w] = 0]
                  /\ \E parsed \in BOOLEAN :
                        IF parsed
                          THEN /\ pc' = [pc EXCEPT ![w] = "simulate"]
                               /\ UNCHANGED werr
                          ELSE /\ pc' = [pc EXCEPT ![w] = "mark_failed"]
                               /\ werr' = [werr EXCEPT ![w] = InternalError("parse")]
            [] _retry(wtry[w], outcome) = "sleep" ->
                  /\ wtry' = [wtry EXCEPT ![w] = @ + 1]
                  /\ UNCHANGED <<pc, werr>>
            [] OTHER ->
                  /\ wtry' = [wtry EXCEPT ![w] = 0]
                  /\ pc' = [pc EXCEPT ![w] = "mark_failed"]
                  /\ werr' = [werr EXCEPT ![w] =
                        IF outcome = "S3Error" THEN DatasetObjectMissing
                        ELSE InternalError("fetch")]
    /\ UNCHANGED <<now, busUp, rows, queue, store, published, pending, starts,
                   histVars, wjob, wdone, stuck, requeued>>
    /\ UNCHANGED clientVars
    /\ UNCHANGED <<apiVars, forecastVars, directVars>>

\* on_progress: the progress written after completed_runs of all_runs
on_progress_pct(completed_runs, all_runs) ==
    Min(InitialProgress + ((80 * completed_runs) \div Max(1, all_runs)), 90)

\* run_forecast: one batch and its on_batch_done / on_progress callback
RunBatch(w) ==
    /\ pc[w] = "simulate"
    /\ LET j == wjob[w]
           all_runs == McRuns
           completed_runs == Min(wdone[w] + BatchSize, all_runs)
           updated == update_progress(rows[j],
                          on_progress_pct(completed_runs, all_runs),
                          completed_runs, all_runs)
       IN \/ /\ rows' = [rows EXCEPT ![j] = updated]
             /\ wdone' = [wdone EXCEPT ![w] = completed_runs]
             /\ IF get(updated)
                  THEN /\ publish_job_event(j, JobEvent("job_progress", updated), busUp)
                       /\ IF publish_returns(busUp) = "raise"
                            THEN Raise(w, "publish")
                            ELSE /\ pc' = [pc EXCEPT ![w] =
                                        IF completed_runs >= all_runs
                                        THEN "put_result" ELSE "simulate"]
                                 /\ UNCHANGED <<werr, wtry>>
                  ELSE /\ NoPublish
                       /\ pc' = [pc EXCEPT ![w] = IF completed_runs >= all_runs
                                                  THEN "put_result" ELSE "simulate"]
                       /\ UNCHANGED <<werr, wtry>>
          \/ \* the simulation raises
             /\ Raise(w, "simulate")
             /\ UNCHANGED <<rows, wdone>>
             /\ NoPublish
    /\ UNCHANGED <<now, busUp, queue, store, pending, starts, histVars,
                   wjob, stuck, requeued>>
    /\ UNCHANGED <<cpc, cjob, subscribed, csent>>
    /\ UNCHANGED <<apiVars, forecastVars, directVars>>

\* lines 147-156: one attempt of a _retry(put_bytes)
PutArtifact(w, at, key, next) ==
    /\ pc[w] = at
    /\ \E outcome \in {"ok", "error"} :
          CASE _retry(wtry[w], outcome) = "return" ->
                  /\ store' = store \cup {key}
                  /\ pc' = [pc EXCEPT ![w] = next]
                  /\ wtry' = [wtry EXCEPT ![w] = 0]
                  /\ UNCHANGED werr
            [] _retry(wtry[w], outcome) = "sleep" ->
                  /\ wtry' = [wtry EXCEPT ![w] = @ + 1]
                  /\ UNCHANGED <<store, pc, werr>>
            [] OTHER ->
                  /\ Raise(w, "put")
                  /\ UNCHANGED store
    /\ UNCHANGED <<now, busUp, rows, queue, published, pending, starts, histVars,
                   wjob, wdone, stuck, requeued>>
    /\ UNCHANGED clientVars
    /\ UNCHANGED <<apiVars, forecastVars, directVars>>

PutResult(w) == PutArtifact(w, "put_result", ResultKey(wjob[w]), "put_csv")
PutCsv(w) == PutArtifact(w, "put_csv", CsvKey(wjob[w]), "put_xlsx")
PutXlsx(w) == PutArtifact(w, "put_xlsx", XlsxKey(wjob[w]), "mark_succeeded")

\* lines 158-163: jobs.mark_succeeded
MarkSucceeded(w) ==
    /\ pc[w] = "mark_succeeded"
    /\ LET j == wjob[w] IN
          /\ rows' = [rows EXCEPT ![j] =
                mark_succeeded(@, ResultKey(j), CsvKey(j), XlsxKey(j), now)]
          /\ wasSucceeded' = IF rows'[j].status = SUCCEEDED
                             THEN wasSucceeded \cup {j} ELSE wasSucceeded
    /\ pc' = [pc EXCEPT ![w] = "publish_done"]
    /\ UNCHANGED <<now, busUp, queue, store, published, pending, starts, swept,
                   rows0, lastCall, wjob, wtry, wdone, werr, stuck, requeued>>
    /\ UNCHANGED clientVars
    /\ UNCHANGED <<apiVars, forecastVars, directVars>>

\* lines 164-177: done = jobs.get(...) and the job_succeeded event
PublishDone(w) ==
    /\ pc[w] = "publish_done"
    /\ LET j == wjob[w] IN
          IF get(rows[j])
            THEN /\ publish_job_event(j, JobEvent("job_succeeded", rows[j]), busUp)
                 /\ IF publish_returns(busUp) = "raise"
                      THEN Raise(w, "publish") /\ UNCHANGED <<wjob, wdone>>
                      ELSE Return(w)
            ELSE NoPublish /\ Return(w)
    /\ UNCHANGED <<now, busUp, rows, queue, store, pending, starts, histVars,
                   stuck, requeued>>
    /\ UNCHANGED <<cpc, cjob, subscribed, csent>>
    /\ UNCHANGED <<apiVars, forecastVars, directVars>>

\* lines 67-81, 88-102 and 179-192: mark_failed and the job_failed event; an
\* exception of the publish would leave run_forecast_job and be caught by
\* the worker loop
MarkFailed(w) ==
    /\ pc[w] = "mark_failed"
    /\ LET j == wjob[w]
           failed == mark_failed(rows[j], werr[w], now)
       IN /\ rows' = [rows EXCEPT ![j] = failed]
          /\ IF get(failed)
               THEN publish_job_event(j, JobEvent("job_failed", failed), busUp)
               ELSE NoPublish
    /\ Return(w)
    /\ UNCHANGED <<now, busUp, queue, store, pending, starts, histVars,
                   stuck, requeued>>
    /\ UNCHANGED <<cpc, cjob, subscribed, csent>>
    /\ UNCHANGED <<apiVars, forecastVars, directVars>>

\* the bus becomes unreachable, or reachable again
BusChange ==
    /\ busUp' = ~busUp
    /\ UNCHANGED <<now, rows, queue, store, published, pending, starts,
                   histVars>>
    /\ UNCHANGED workerVars
    /\ UNCHANGED clientVars
    /\ UNCHANGED <<apiVars, forecastVars, directVars>>

Pipeline(w) ==
    \/ Entry(w) \/ MarkRunning(w) \/ LoadDataset(w) \/ FetchDataset(w)
    \/ RunBatch(w)
    \/ PutResult(w) \/ PutCsv(w) \/ PutXlsx(w)
    \/ MarkSucceeded(w) \/ PublishDone(w) \/ MarkFailed(w)

Supervisor(w) ==
    \/ Start(w) \/ (\E j \in Jobs : SweepRequeue(w, j)) \/ SweepEnqueue(w)
    \/ Crash(w) \/ Dequeue(w)

Api == \E j \in Jobs : CreateJob(j) \/ EnqueueJob(j) \/ EnqueueFails(j) \/ DeleteJob(j)

Next ==
    \/ Api
    \/ Tick
    \/ BusChange
    \/ \E w \in Workers : Supervisor(w)
    \/ \E w \in Workers : Pipeline(w)

Spec == Init /\ [][Next]_vars

\* -------------------------------------------------------- stream endpoint
TerminalEventTypes == {"job_succeeded", "job_failed"}

\* _job_state_event: the type of the snapshot of a row
SnapshotType(row) ==
    IF row.status = SUCCEEDED THEN "job_succeeded"
    ELSE IF row.status = FAILED THEN "job_failed"
    ELSE "job_progress"

\* stream_forecast_job: websocket.accept()
Connect(j) ==
    /\ cpc = "idle"
    /\ cpc' = "accepted"
    /\ cjob' = j
    /\ UNCHANGED <<now, busUp, rows, queue, store, published, pending, starts, histVars,
                   subscribed, inbox, csent>>
    /\ UNCHANGED workerVars
    /\ UNCHANGED <<apiVars, forecastVars, directVars>>

\* stream_forecast_job lines 352-374: read the row, send JOB_NOT_FOUND or the
\* snapshot, close on a terminal snapshot
ReadRow ==
    /\ cpc = "accepted"
    /\ IF ~get(rows[cjob])
         THEN /\ csent' = Append(csent, "job_failed")
              /\ cpc' = "closed"
         ELSE /\ csent' = Append(csent, SnapshotType(rows[cjob]))
              /\ cpc' = IF SnapshotType(rows[cjob]) \in TerminalEventTypes
                        THEN "closed" ELSE "subscribing"
    /\ UNCHANGED <<now, busUp, rows, queue, store, published, pending, starts, histVars,
                   cjob, subscribed, inbox>>
    /\ UNCHANGED workerVars
    /\ UNCHANGED <<apiVars, forecastVars, directVars>>

\* iter_job_events: pubsub.subscribe(channel)
Subscribe ==
    /\ cpc = "subscribing"
    /\ subscribed' = TRUE
    /\ cpc' = "listening"
    /\ UNCHANGED <<now, busUp, rows, queue, store, published, pending, starts, histVars,
                   cjob, inbox, csent>>
    /\ UNCHANGED workerVars
    /\ UNCHANGED <<apiVars, forecastVars, directVars>>

\* lines 377-380: forward one bus message, return on a terminal event (the
\* generator then unsubscribes)
Forward ==
    /\ cpc = "listening"
    /\ inbox # <<>>
    /\ csent' = Append(csent, Head(inbox))
    /\ IF Head(inbox) \in TerminalEventTypes
         THEN /\ cpc' = "closed"
              /\ subscribed' = FALSE
              /\ inbox' = <<>>
         ELSE /\ cpc' = "listening"
              /\ subscribed' = subscribed
              /\ inbox' = Tail(inbox)
    /\ UNCHANGED <<now, busUp, rows, queue, store, published, pending, starts, histVars,
                   cjob>>
    /\ UNCHANGED workerVars
    /\ UNCHANGED <<apiVars, forecastVars, directVars>>

\* iter_job_events: no message within heartbeat_seconds; consecutive
\* heartbeats are recorded once
Heartbeat ==
    /\ cpc = "listening"
    /\ inbox = <<>>
    /\ csent[Len(csent)] # "heartbeat"
    /\ csent' = Append(csent, "heartbeat")
    /\ UNCHANGED <<now, busUp, rows, queue, store, published, pending, starts, histVars,
                   cpc, cjob, subscribed, inbox>>
    /\ UNCHANGED workerVars
    /\ UNCHANGED <<apiVars, forecastVars, directVars>>

Stream ==
    \/ \E j \in Submitted : Connect(j)
    \/ ReadRow \/ Subscribe \/ Forward \/ Heartbeat

\* the pipeline and the supervisor run by one worker process, the submission
\* API and one stream connection, under the scheduling of the processes: a
\* process that can take a step eventually takes it, a stopped worker is
\* started again, the clock advances
LiveWorkers == {"w1"}

NextLive ==
    \/ Api
    \/ Tick
    \/ BusChange
    \/ \E w \in LiveWorkers : Supervisor(w)
    \/ \E w \in LiveWorkers : Pipeline(w)
    \/ Stream

Fairness ==
    /\ \A w \in LiveWorkers :
          /\ WF_vars(Pipeline(w))
          /\ WF_vars(Dequeue(w))
          /\ WF_vars(Start(w))
          /\ WF_vars(\E j \in Jobs : SweepRequeue(w, j))
          /\ WF_vars(SweepEnqueue(w))
    /\ \A j \in Jobs : WF_vars(EnqueueJob(j))
    /\ WF_vars(Tick)
    /\ WF_vars(ReadRow \/ Subscribe \/ Forward \/ Heartbeat)

SpecLive == Init /\ [][NextLive]_vars /\ Fairness

\* ------------------------------------------- the job store called directly
\* the arguments of the direct calls
ProgressArgs == {0 - 10, InitialProgress, 50, 120}
MessageArgs == {"ERR"}

Call(j, op) == lastCall' = [op |-> op, before |-> rows[j],
                            returned |-> IF get(rows[j]) THEN "row" ELSE "None"]

RepoFrame ==
    /\ UNCHANGED <<now, busUp, queue, store, published, pending, starts,
                   wasSucceeded, swept, rows0>>
    /\ UNCHANGED workerVars
    /\ UNCHANGED clientVars
    /\ UNCHANGED <<lastRequest, bulk, forecastVars, directVars>>

RepoCreate(j) ==
    /\ rows[j].status = ABSENT
    /\ rows' = [rows EXCEPT ![j] = create(McRuns)]
    /\ lastCall' = [op |-> "create", before |-> rows[j], returned |-> "row"]
    /\ params_json' = [params_json EXCEPT ![j] = ScenarioParams(DefaultBody)]
    /\ owner_user_id' = [owner_user_id EXCEPT ![j] = None]
    /\ RepoFrame

RepoMarkRunning(j) ==
    /\ \E p \in ProgressArgs :
          rows' = [rows EXCEPT ![j] = mark_running(@, p, McRuns, now)]
    /\ Call(j, "mark_running")
    /\ UNCHANGED <<params_json, owner_user_id>>
    /\ RepoFrame

RepoUpdateProgress(j) ==
    /\ \E p \in ProgressArgs, c \in 0..McRuns :
          rows' = [rows EXCEPT ![j] = update_progress(@, p, c, McRuns)]
    /\ Call(j, "update_progress")
    /\ UNCHANGED <<params_json, owner_user_id>>
    /\ RepoFrame

RepoMarkFailed(j) ==
    /\ \E m \in MessageArgs :
          rows' = [rows EXCEPT ![j] = mark_failed(@, m, now)]
    /\ Call(j, "mark_failed")
    /\ UNCHANGED <<params_json, owner_user_id>>
    /\ RepoFrame

RepoMarkSucceeded(j) ==
    /\ rows' = [rows EXCEPT ![j] =
          mark_succeeded(@, ResultKey(j), CsvKey(j), XlsxKey(j), now)]
    /\ Call(j, "mark_succeeded")
    /\ UNCHANGED <<params_json, owner_user_id>>
    /\ RepoFrame

RepoRequeue(j) ==
    /\ rows' = [rows EXCEPT ![j] = requeue(@)]
    /\ Call(j, "requeue")
    /\ UNCHANGED <<params_json, owner_user_id>>
    /\ RepoFrame

RepoSoftDelete(j) ==
    /\ rows' = [rows EXCEPT ![j] = soft_delete_for_owner(@, now)]
    /\ Call(j, "soft_delete_for_owner")
    /\ UNCHANGED <<params_json, owner_user_id>>
    /\ RepoFrame

RepoTick ==
    /\ Tick
    /\ lastCall' = lastCall

NextRepo ==
    \/ \E j \in Submitted :
          \/ RepoCreate(j) \/ RepoMarkRunning(j) \/ RepoUpdateProgress(j)
          \/ RepoMarkFailed(j) \/ RepoMarkSucceeded(j) \/ RepoRequeue(j)
          \/ RepoSoftDelete(j)
    \/ RepoTick

SpecRepo == Init /\ [][NextRepo]_vars

\* ------------------------------------------- one start-up sweep on a table
ClockValues == {t \in 0..MaxClock : t % TickMinutes = 0}

\* rows the pipeline leaves in the table of job j, written up to time t
PersistedRows(j, t) ==
    LET q == create(McRuns)
        running == {mark_running(q, InitialProgress, McRuns, u) :
                        u \in {v \in ClockValues : v <= t}}
        progressed == {update_progress(r, on_progress_pct(1, McRuns), 1, McRuns) :
                        r \in running}
        failed == {mark_failed(r, InternalError("simulate"), t) : r \in running}
        succeeded == {mark_succeeded(r, ResultKey(j), CsvKey(j), XlsxKey(j), t) :
                        r \in progressed}
        deleted == {soft_delete_for_owner(r, t) : r \in failed \cup succeeded}
    IN  {q, CanceledRow} \cup running \cup progressed \cup failed
           \cup succeeded \cup deleted

InitSweep ==
    /\ now \in ClockValues
    /\ busUp = TRUE
    /\ rows \in [Jobs -> UNION {PersistedRows(j, now) : j \in Jobs}]
    /\ \A j \in Jobs : rows[j] \in PersistedRows(j, now)
    /\ queue = <<>>
    /\ store = {}
    /\ published = [j \in Jobs |-> {}]
    /\ pending = {}
    /\ pc = [w \in Workers |-> "down"]
    /\ wjob = [w \in Workers |-> "none"]
    /\ wdone = [w \in Workers |-> 0]
    /\ werr = [w \in Workers |-> NoText]
    /\ wtry = [w \in Workers |-> 0]
    /\ stuck = [w \in Workers |-> {}]
    /\ requeued = [w \in Workers |-> <<>>]
    /\ starts = 0
    /\ wasSucceeded = {}
    /\ swept = {}
    /\ rows0 = rows
    /\ lastCall = [op |-> "none", before |-> AbsentRow, returned |-> "None"]
    /\ cpc = "idle"
    /\ cjob = "none"
    /\ subscribed = FALSE
    /\ inbox = <<>>
    /\ csent = <<>>
    /\ InitApi
    /\ IdleForecast
    /\ IdleDirect

NextSweep ==
    \/ Start("w1")
    \/ \E j \in Jobs : SweepRequeue("w1", j)
    \/ SweepEnqueue("w1")

SpecSweep == InitSweep /\ [][NextSweep]_vars

\* ------------------------------------------------ submissions of any body
SubmitAny(j) ==
    \E body \in BodyArgs, dataset_row \in {"row", "None"} :
        Submit(j, body, dataset_row)

NextSubmit ==
    \E j \in Jobs : SubmitAny(j) \/ EnqueueJob(j) \/ EnqueueFails(j)

SpecSubmit == Init /\ [][NextSubmit]_vars

\* ------------------------------------------------ bulk delete of history
MaxBulkCalls == 2
MaxIds == 2

\* BulkDeleteRequest.ids: a non-empty list of ids, repetitions allowed
IdLists == UNION {[1..n -> Jobs] : n \in 1..MaxIds}

\* the row j of the user, soft-deleted or not
get_for_owner_include_deleted(j, user) ==
    rows[j].status # ABSENT /\ owner_user_id[j] = user

\* the row j of the user, unless it is soft-deleted
get_for_owner(j, user) ==
    get(rows[j]) /\ owner_user_id[j] = user

BulkDeleteSkipItem(id, reason) == [id |-> id, reason |-> reason]

\* the (object key, alias) pairs _delete_job_artifacts_best_effort tries
object_targets(row) ==
    <<<<row.result_object_key, "result">>, <<row.csv_object_key, "csv">>,
      <<row.xlsx_object_key, "xlsx">>>>

RECURSIVE artifact_skips(_, _, _, _)
\* the skip items of the targets whose delete_object raised
artifact_skips(j, targets, raised, k) ==
    IF k > Len(targets) THEN <<>>
    ELSE (IF targets[k][1] # NoKey /\ targets[k][2] \in raised
             THEN <<BulkDeleteSkipItem(j, "OBJECT_DELETE_FAILED:" \o targets[k][2]
                                            \o ":error")>>
             ELSE <<>>) \o artifact_skips(j, targets, raised, k + 1)

BulkFrame ==
    /\ UNCHANGED <<now, busUp, queue, published, pending, starts, histVars>>
    /\ UNCHANGED workerVars
    /\ UNCHANGED clientVars
    /\ UNCHANGED <<lastRequest, params_json, owner_user_id, forecastVars, directVars>>

\* a request arrives: the lists are empty, the loop is at the first id
BulkStart(ids) ==
    /\ bulk.pc \in {"idle", "responded"}
    /\ bulk.call < MaxBulkCalls
    /\ bulk' = [pc |-> "loop", call |-> bulk.call + 1, ids |-> ids, i |-> 1,
                deleted_ids |-> <<>>, skipped |-> <<>>,
                previous |-> IF bulk.call = 0 THEN NoneObj
                             ELSE [ids |-> bulk.ids,
                                   deleted_ids |-> bulk.deleted_ids,
                                   skipped |-> bulk.skipped]]
    /\ UNCHANGED <<rows, store>>
    /\ BulkFrame

\* one iteration of the loop over req.ids
BulkItem ==
    /\ bulk.pc = "loop"
    /\ bulk.i <= Len(bulk.ids)
    /\ LET job_id == bulk.ids[bulk.i]
           row == rows[job_id]
       IN  IF ~get_for_owner(job_id, CurrentUser)
           THEN /\ bulk' = [bulk EXCEPT
                       !.skipped = Append(@, BulkDeleteSkipItem(job_id, "NOT_FOUND")),
                       !.i = @ + 1]
                /\ UNCHANGED <<rows, store>>
           ELSE IF row.status \in {QUEUED, RUNNING}
           THEN /\ bulk' = [bulk EXCEPT
                       !.skipped = Append(@, BulkDeleteSkipItem(job_id, "JOB_ACTIVE")),
                       !.i = @ + 1]
                /\ UNCHANGED <<rows, store>>
           ELSE \E raised \in SUBSET {"result", "csv", "xlsx"} :
                /\ store' = store \ {object_targets(row)[k][1] :
                                       k \in {n \in 1..3 :
                                          object_targets(row)[n][2] \notin raised}}
                /\ rows' = [rows EXCEPT
                               ![job_id] = soft_delete_for_owner(@, now)]
                /\ bulk' = [bulk EXCEPT
                       !.skipped = @ \o artifact_skips(job_id, object_targets(row),
                                                       raised, 1),
                       !.deleted_ids = Append(@, job_id),
                       !.i = @ + 1]
    /\ BulkFrame

\* return BulkDeleteResponse(deleted_ids=deleted_ids, skipped=skipped)
BulkRespond ==
    /\ bulk.pc = "loop"
    /\ bulk.i > Len(bulk.ids)
    /\ bulk' = [bulk EXCEPT !.pc = "responded"]
    /\ UNCHANGED <<rows, store>>
    /\ BulkFrame

\* the table when the requests arrive: rows of either user, in any status
InitBulk ==
    /\ now = MaxClock
    /\ busUp = TRUE
    /\ rows \in [Jobs -> {AbsentRow} \cup UNION {PersistedRows(j, 0) : j \in Jobs}]
    /\ \A j \in Jobs : rows[j] \in {AbsentRow} \cup PersistedRows(j, 0)
    /\ queue = <<>>
    /\ store = UNION {{rows[j].result_object_key, rows[j].csv_object_key,
                       rows[j].xlsx_object_key} \ {NoKey} :
                         j \in {k \in Jobs : rows[k].deleted_at = NoTime}}
    /\ published = [j \in Jobs |-> {}]
    /\ pending = {}
    /\ pc = [w \in Workers |-> "down"]
    /\ wjob = [w \in Workers |-> "none"]
    /\ wdone = [w \in Workers |-> 0]
    /\ werr = [w \in Workers |-> NoText]
    /\ wtry = [w \in Workers |-> 0]
    /\ stuck = [w \in Workers |-> {}]
    /\ requeued = [w \in Workers |-> <<>>]
    /\ starts = 0
    /\ wasSucceeded = {}
    /\ swept = {}
    /\ rows0 = rows
    /\ lastCall = [op |-> "none", before |-> AbsentRow, returned |-> "None"]
    /\ cpc = "idle"
    /\ cjob = "none"
    /\ subscribed = FALSE
    /\ inbox = <<>>
    /\ csent = <<>>
    /\ lastRequest = [n |-> 0, body |-> DefaultBody, dataset_row |-> "row",
                      status_code |-> 0]
    /\ params_json = [j \in Jobs |-> IF rows[j].status = ABSENT THEN NoParams
                                     ELSE ScenarioParams(DefaultBody)]
    /\ owner_user_id \in [Jobs -> Users \cup {None}]
    /\ \A j \in Jobs : owner_user_id[j] = None <=> rows[j].status = ABSENT
    /\ bulk = NoBulk
    /\ IdleForecast
    /\ IdleDirect

NextBulk ==
    \/ \E ids \in IdLists : BulkStart(ids)
    \/ BulkItem
    \/ BulkRespond

SpecBulk == InitBulk /\ [][NextBulk]_vars

\* ================================================================ claims

\* ------------------------------------------------- orchestrator: dates
\* dates are <<year, month, day>>
date_lt(a, b) ==
    \/ a[1] < b[1]
    \/ a[1] = b[1] /\ a[2] < b[2]
    \/ a[1] = b[1] /\ a[2] = b[2] /\ a[3] < b[3]

RECURSIVE month_loop(_, _, _, _)
\* the loop of month_starts_next: the first days of months months, <<y, m>> on
month_loop(y, m, months, out) ==
    IF months = 0 THEN out
    ELSE IF m + 1 = 13
           THEN month_loop(y + 1, 1, months - 1, Append(out, <<y, m, 1>>))
           ELSE month_loop(y, m + 1, months - 1, Append(out, <<y, m, 1>>))

\* month_starts_next that stays in the year of a December from_date
month_starts_next_same_year(from_date, months) ==
    IF from_date[2] = 12
      THEN month_loop(from_date[1], 1, months, <<>>)
      ELSE month_loop(from_date[1], from_date[2] + 1, months, <<>>)

month_starts_next(from_date, months) ==
    IF from_date[2] = 12
      THEN month_loop(from_date[1] + 1, 1, months, <<>>)
      ELSE month_loop(from_date[1], from_date[2] + 1, months, <<>>)

\* TRUE when no ValueError is raised
validate_future_date_is_month_start(future_date) ==
    future_date = NoDate \/ ~(future_date[3] # 1)

\* get_max_date_from_file of the two files
resolve_dataset_start_date(csv) ==
    IF csv = "dA" THEN <<2025, 11, 1>> ELSE <<2025, 12, 31>>

InSeq(x, seq) == \E i \in DOMAIN seq : seq[i] = x

\* list.sort() on dates
sort_dates(dates) ==
    CHOOSE s \in [1..Len(dates) -> {dates[i] : i \in DOMAIN dates}] :
        /\ \A i \in 1..(Len(dates) - 1) : ~date_lt(s[i + 1], s[i])
        /\ \A i \in DOMAIN dates : Count(s, dates[i]) = Count(dates, dates[i])

\* lines 331-338 without the range check: the dates of the snapshots
target_dates_of(report_date, params) ==
    LET first == <<report_date>> \o month_starts_next(report_date, params.horizon_months)
    IN  IF params.future_date # NoDate /\ ~InSeq(params.future_date, first)
          THEN sort_dates(Append(first, params.future_date))
          ELSE first

\* a range check that forgets the report date
future_date_in_range_upper_only(report_date, params) ==
    LET first == <<report_date>> \o month_starts_next(report_date, params.horizon_months)
        horizon_end == first[Len(first)]
    IN  \/ params.future_date = NoDate
        \/ ~date_lt(horizon_end, params.future_date)

\* lines 332-335: TRUE when FUTURE_DATE_OUT_OF_RANGE is not raised
future_date_in_range(report_date, params) ==
    LET first == <<report_date>> \o month_starts_next(report_date, params.horizon_months)
        horizon_end == first[Len(first)]
    IN  \/ params.future_date = NoDate
        \/ ~(\/ date_lt(params.future_date, report_date)
             \/ date_lt(horizon_end, params.future_date))

\* --------------------------------------------------- orchestrator: one run
\* a float is kept in thousandths
Unit == 1000
float(n) == n * Unit

\* _initial_snapshot(load_active_cows(temp_path), snap_date) of the two files
_initial_snapshot(csv, snap_date) ==
    IF csv = "dA"
      THEN [date |-> snap_date, milking_count |-> 2, dry_count |-> 1,
            heifer_count |-> 3, pregnant_heifer_count |-> 1,
            avg_days_in_milk |-> float(120)]
      ELSE [date |-> snap_date, milking_count |-> 0, dry_count |-> 2,
            heifer_count |-> 1, pregnant_heifer_count |-> 2,
            avg_days_in_milk |-> NoNumber]

\* _metric_to_row of the metric that Simulation.run recorded for the herd of
\* csv, culled by the hazard table hazards with the random stream of seed
_metric_to_row(csv, hazards, seed) ==
    LET initial == _initial_snapshot(csv, NoDate)
    IN  [initial EXCEPT
           !.heifer_count = @ - world[hazards, seed],
           !.avg_days_in_milk = IF @ = NoNumber THEN float(0) ELSE @]

\* _build_run_outputs(_run_one(...)["history"], base_herd, report_date,
\* target_dates): a history has a metric at or before every later target date
_build_run_outputs(csv, hazards, seed, report_date, target_dates) ==
    [i \in DOMAIN target_dates |->
        IF target_dates[i] = report_date
          THEN _initial_snapshot(csv, report_date)
          ELSE [_metric_to_row(csv, hazards, seed) EXCEPT !.date = target_dates[i]]]

\* ------------------------------------------------ orchestrator: aggregation
\* sorted(values), as np.percentile orders its sample
sort_values(values) ==
    CHOOSE s \in [1..Len(values) -> {values[i] : i \in DOMAIN values}] :
        /\ \A i \in 1..(Len(values) - 1) : s[i] <= s[i + 1]
        /\ \A i \in DOMAIN values : Count(s, values[i]) = Count(values, values[i])

\* the linear interpolation of np.percentile and of _quantile at the position
\* (n - 1) * q / 1000 of a sample; q in tenths of a percent
interpolate(sample, q) ==
    LET n == Len(sample)
        pos == (n - 1) * q
        lo == (pos \div 1000) + 1
        hi == Min(lo + 1, n)
    IN  sample[lo] + ((pos % 1000) * (sample[hi] - sample[lo])) \div 1000

\* a percentile that interpolates in the order of the runs
percentile_unsorted(values, q) == interpolate(values, q)

\* np.percentile(values, q)
percentile(values, q) == interpolate(sort_values(values), q)

\* monte_carlo._quantile; q in thousandths
_quantile(sorted_vals, q) ==
    IF sorted_vals = <<>> THEN 0
    ELSE IF q <= 0 THEN sorted_vals[1]
    ELSE IF q >= 1000 THEN sorted_vals[Len(sorted_vals)]
    ELSE interpolate(sorted_vals, q)

\* round() of Python 3 on a float that is not negative: half to even
round(x) ==
    LET f == x \div Unit
        r == x % Unit
    IN  IF 2 * r < Unit THEN f
        ELSE IF 2 * r > Unit THEN f + 1
        ELSE IF f % 2 = 0 THEN f ELSE f + 1

\* lines 179-187: one key of one row of _percentile_rows
percentile_value(runs, idx, key, q) ==
    LET all == [r \in DOMAIN runs |-> runs[r][idx][key]]
        values == SelectSeq(all, LAMBDA v : v # NoNumber)
    IN  IF values = <<>> THEN NoNumber
        ELSE IF key # "avg_days_in_milk"
               THEN round(percentile([i \in DOMAIN values |-> float(values[i])], q))
               ELSE percentile(values, q)

_percentile_rows(runs, q) ==
    [idx \in DOMAIN runs[1] |->
        [date |-> runs[1][idx].date,
         milking_count |-> percentile_value(runs, idx, "milking_count", q),
         dry_count |-> percentile_value(runs, idx, "dry_count", q),
         heifer_count |-> percentile_value(runs, idx, "heifer_count", q),
         pregnant_heifer_count |->
             percentile_value(runs, idx, "pregnant_heifer_count", q),
         avg_days_in_milk |-> percentile_value(runs, idx, "avg_days_in_milk", q)]]

_to_series(rows_) == [points |-> rows_]

\* lower_q of _build_result_from_runs in tenths of a percent;
\* confidence_central in percent
lower_q(params) == (100 - params.confidence_central) * 5
upper_q(params) == 1000 - lower_q(params)

\* _build_result_from_runs (herd_m5); events_accum and meta are left out
_build_result_from_runs(runs, completed_runs, params) ==
    LET p50_rows == _percentile_rows(runs, 500)
        plo_rows == _percentile_rows(runs, lower_q(params))
        phi_rows == _percentile_rows(runs, upper_q(params))
        hits == {i \in DOMAIN p50_rows : p50_rows[i].date = params.future_date}
    IN  [series_p50 |-> _to_series(p50_rows),
         series_p10 |-> _to_series(plo_rows),
         series_p90 |-> _to_series(phi_rows),
         future_point |->
            IF params.future_date # NoDate /\ hits # {}
              THEN p50_rows[CHOOSE i \in hits : \A k \in hits : i <= k]
              ELSE NoneObj]

\* ---------------------------------------- orchestrator: run_forecast_herd_m5
ForecastFrame ==
    /\ UNCHANGED <<now, busUp, rows, queue, store, published, pending, starts,
                   histVars>>
    /\ UNCHANGED workerVars
    /\ UNCHANGED clientVars
    /\ UNCHANGED <<apiVars, directVars>>

\* use_parallel of lines 378-382; max_processes > 1 when parallel_enabled
use_parallel(args) == args.parallel_enabled /\ args.params.mc_runs >= 2

\* the table _ensure_cull_cache leaves under file_path, the file holding csv
hazards_of(file_path, csv) ==
    IF _CULL_CACHE[file_path] # None THEN _CULL_CACHE[file_path] ELSE csv

\* lines 325-358: the worker process calls the orchestrator for the file csv;
\* NamedTemporaryFile hands out a name no file has
StartForecast ==
    /\ fpc # "batches"
    /\ executions < MaxExecutions
    /\ executions' = executions + 1
    /\ \E csv \in Datasets, temp_path \in TempNames, parallel_enabled \in BOOLEAN :
          LET args == [fin EXCEPT !.csv = csv, !.temp_path = temp_path,
                                  !.parallel_enabled = parallel_enabled]
              report_date == resolve_dataset_start_date(csv)
          IN  /\ fin' = args
              /\ fruns' = <<>>
              /\ fcompleted_runs' = 0
              /\ fresult' = NoneObj
              /\ IF ~validate_future_date_is_month_start(args.params.future_date)
                   THEN /\ ftarget_dates' = <<>>
                        /\ fpc' = "failed"
                        /\ ferror' = "FUTURE_DATE_NOT_SUPPORTED: future_date must be month start for herd_m5"
                   ELSE IF ~future_date_in_range(report_date, args.params)
                   THEN /\ ftarget_dates' = <<>>
                        /\ fpc' = "failed"
                        /\ ferror' = "FUTURE_DATE_OUT_OF_RANGE: future_date is outside forecast horizon"
                   ELSE /\ ftarget_dates' = target_dates_of(report_date, args.params)
                        /\ fpc' = "batches"
                        /\ ferror' = NoText
    /\ UNCHANGED <<world, _CULL_CACHE>>
    /\ ForecastFrame

\* the hazard table the runs of an execution are culled with: a forked pool
\* process inherits the cache of the worker process, a spawned one starts
\* with an empty cache and fills it from the file
run_hazards(args) ==
    IF use_parallel(args) /\ args.start_method # "fork" THEN args.csv
    ELSE hazards_of(args.temp_path, args.csv)

\* lines 384-425: one batch of _run_seed_job and its on_batch_done; the caches
\* of the pool processes die with them
RunSeedBatch ==
    /\ fpc = "batches"
    /\ fcompleted_runs < fin.params.mc_runs
    /\ LET start == fcompleted_runs
           safe_batch_size == Max(1, fin.batch_size)
           stop == Min(start + safe_batch_size, fin.params.mc_runs)
           hazards == run_hazards(fin)
           batch_outputs ==
               [k \in 1..(stop - start) |->
                   _build_run_outputs(fin.csv, hazards, seed_of(start + k - 1),
                                      resolve_dataset_start_date(fin.csv),
                                      ftarget_dates)]
       IN  /\ _CULL_CACHE' = IF use_parallel(fin) THEN _CULL_CACHE
                             ELSE [_CULL_CACHE EXCEPT ![fin.temp_path] = hazards]
           /\ fruns' = fruns \o batch_outputs
           /\ fcompleted_runs' = stop
           /\ fresult' = _build_result_from_runs(fruns', fcompleted_runs', fin.params)
    /\ UNCHANGED <<fpc, fin, world, ftarget_dates, ferror, executions>>
    /\ ForecastFrame

\* lines 427-440: the final result; the temporary file is removed
FinishForecast ==
    /\ fpc = "batches"
    /\ fcompleted_runs = fin.params.mc_runs
    /\ fresult' = _build_result_from_runs(fruns, Max(1, fcompleted_runs), fin.params)
    /\ fpc' = "done"
    /\ UNCHANGED <<fin, world, _CULL_CACHE, ftarget_dates, fruns,
                   fcompleted_runs, ferror, executions>>
    /\ ForecastFrame

\* a worker process, a simulation and a scenario
InitForecast ==
    /\ InitPipeline
    /\ \A j \in Jobs : rows[j] = AbsentRow
    /\ fpc = "idle"
    /\ \E params \in ParamsArgs, batch_size \in 1..McRuns,
          start_method \in StartMethods :
          fin = [DefaultArgs EXCEPT !.params = params, !.batch_size = batch_size,
                                    !.start_method = start_method]
    /\ world \in [Datasets \X Seeds -> 0..1]
    /\ _CULL_CACHE = [path \in TempNames |-> None]
    /\ ftarget_dates = <<>>
    /\ fruns = <<>>
    /\ fcompleted_runs = 0
    /\ fresult = NoneObj
    /\ ferror = NoText
    /\ executions = 0
    /\ IdleDirect

NextForecast == StartForecast \/ RunSeedBatch \/ FinishForecast

SpecForecast == InitForecast /\ [][NextForecast]_vars

\* ------------------------------------------- the aggregation called directly
\* rows a run may hold at one snapshot date
RowArgs(d) ==
    {[date |-> d, milking_count |-> 0, dry_count |-> 1, heifer_count |-> 2,
      pregnant_heifer_count |-> 5, avg_days_in_milk |-> NoNumber],
     [date |-> d, milking_count |-> 2, dry_count |-> 1, heifer_count |-> 7,
      pregnant_heifer_count |-> 0, avg_days_in_milk |-> float(100)],
     [date |-> d, milking_count |-> 5, dry_count |-> 4, heifer_count |-> 3,
      pregnant_heifer_count |-> 1, avg_days_in_milk |-> float(33)]}

\* runs over two snapshot dates
RunArgs == {<<a, b>> : a \in RowArgs(<<2025, 11, 1>>), b \in RowArgs(<<2025, 12, 1>>)}

\* confidence_central in percent
ConfidenceArgs == {50, 75, 90, 99}

InitAggregate ==
    /\ InitPipeline
    /\ \A j \in Jobs : rows[j] = AbsentRow
    /\ fpc = "batches"
    /\ \E c \in ConfidenceArgs, n \in 1..AggRuns :
          /\ fin = [DefaultArgs EXCEPT !.params.confidence_central = c,
                                       !.params.mc_runs = n]
          /\ fruns \in [1..n -> RunArgs]
          /\ fcompleted_runs = n
    /\ world = [h \in Datasets, seed \in Seeds |-> 0]
    /\ _CULL_CACHE = [path \in TempNames |-> None]
    /\ ftarget_dates = <<<<2025, 11, 1>>, <<2025, 12, 1>>>>
    /\ fresult = NoneObj
    /\ ferror = NoText
    /\ executions = 1
    /\ IdleDirect

SpecAggregate == InitAggregate /\ [][FinishForecast]_vars

\* ------------------------------------------------ herd_m5: the daily tick
\* dates of a run are day numbers; a month of the model's calendar has
\* MonthLen days and a run simulates MaxDays days
MonthLen == 2
MaxDays == 4
\* None where a date is expected
NoDay == -99

\* date.day == 1
is_month_start(d) == d % MonthLen = 0

\* ModelConfig, in days of the model's calendar, and the lead time of _run_one
cfg ==
    [min_first_insem_age_days |-> 1, voluntary_waiting_period |-> 1,
     max_service_period_after_vwp |-> 2, gestation_lo |-> 3, gestation_hi |-> 3,
     purchased_days_to_calving_lo |-> 1, purchased_days_to_calving_hi |-> 2,
     lead_time_days |-> 1]

\* what the samplers built from the dataset can return
age_first_insem_days == {1}
service_period_days == {1, 3}
conception_to_dry_days == {1, 3}
\* sample_gestation_days: a rounded draw clamped to gestation_lo..gestation_hi
sample_gestation_days == cfg.gestation_lo..cfg.gestation_hi

\* a Cow as its constructor leaves it; obj is the identity of the Python
\* object, prev and changes watch its status over one day, culled_on is the
\* day its status became culled, calved_on the day of its last calving in the
\* run
Cow(obj, id, birth_date, status) ==
    [obj |-> obj, id |-> id, birth_date |-> birth_date, status |-> status,
     last_calving_date |-> NoDay, conception_date |-> NoDay,
     dry_date |-> NoDay, planned_dry_date |-> NoDay,
     planned_calving_date |-> NoDay, days_in_current_status |-> 0,
     days_in_milk |-> 0,
     planned_first_insem_date |-> NoDay, planned_conception_date |-> NoDay,
     prev |-> "new", changes |-> 0, culled_on |-> NoDay, calved_on |-> NoDay]

\* cow.status = ...
set_status(cow, status) ==
    [cow EXCEPT !.status = status, !.changes = @ + 1]

\* Cow.is_milking counting only fresh cows
is_milking_fresh_only(cow) == cow.status = "fresh"

\* Cow.is_milking
is_milking(cow) == cow.status \in {"fresh", "ready_for_breeding", "pregnant"}

\* Cow.reset_for_new_lactation
reset_for_new_lactation(cow, calving_date) ==
    [set_status(cow, "fresh") EXCEPT
        !.last_calving_date = calving_date, !.days_in_milk = 0,
        !.conception_date = NoDay,
        !.dry_date = NoDay, !.planned_dry_date = NoDay,
        !.planned_calving_date = NoDay, !.days_in_current_status = 0]

\* what a tick returns to step_day: the cow, and what happened to it
Ticked(cow) ==
    [cow |-> cow, calving |-> FALSE, heifer |-> FALSE, dryoff |-> FALSE,
     culled |-> FALSE]

\* Simulation._tick_heifer with the draws age and gd
_tick_heifer(cow, today, age, gd) ==
    LET planned == IF cow.planned_first_insem_date = NoDay
                     THEN cow.birth_date + Max(age, cfg.min_first_insem_age_days)
                     ELSE cow.planned_first_insem_date
        c1 == [cow EXCEPT !.planned_first_insem_date = planned]
    IN  IF today >= planned
          THEN Ticked([set_status(c1, "pregnant_heifer") EXCEPT
                         !.conception_date = today,
                         !.days_in_current_status = 0,
                         !.planned_calving_date = today + gd])
          ELSE Ticked(c1)

\* Simulation._do_calving; heifer is the outcome of rng.random() < heifer_birth_prob
_do_calving(cow, today, heifer) ==
    [Ticked([reset_for_new_lactation(cow, today) EXCEPT !.calved_on = today]) EXCEPT
        !.calving = TRUE, !.heifer = heifer]

\* Simulation._tick_pregnant_heifer and Simulation._tick_dry
_tick_calving(cow, today, heifer) ==
    IF cow.planned_calving_date # NoDay /\ today >= cow.planned_calving_date
      THEN _do_calving(cow, today, heifer)
      ELSE Ticked(cow)

\* Simulation._tick_fresh with the draw sp
_tick_fresh(cow, sp) ==
    IF cow.days_in_current_status >= cfg.voluntary_waiting_period
      THEN LET c1 == [set_status(cow, "ready_for_breeding") EXCEPT
                         !.days_in_current_status = 0]
           IN  IF cow.last_calving_date # NoDay
                 THEN Ticked([c1 EXCEPT !.planned_conception_date =
                        cow.last_calving_date + Max(sp, cfg.voluntary_waiting_period)])
                 ELSE Ticked(c1)
      ELSE Ticked(cow)

\* the planned dates of a cow that conceives today, the dry date not brought
\* before the calving date
conceive_unclamped(cow, today, gd, dtd) ==
    [set_status(cow, "pregnant") EXCEPT
        !.conception_date = today, !.days_in_current_status = 0,
        !.planned_calving_date = today + gd,
        !.planned_dry_date = today + dtd]

\* the planned dates of a cow that conceives today
conceive(cow, today, gd, dtd) ==
    [set_status(cow, "pregnant") EXCEPT
        !.conception_date = today, !.days_in_current_status = 0,
        !.planned_calving_date = today + gd,
        !.planned_dry_date = IF today + dtd >= today + gd THEN today + gd - 1
                             ELSE today + dtd]

\* Simulation._tick_ready_for_breeding with the draws sp, gd and dtd
_tick_ready_for_breeding(cow, today, sp, gd, dtd) ==
    IF cow.days_in_current_status >= cfg.max_service_period_after_vwp
      THEN [Ticked(set_status(cow, "culled")) EXCEPT !.culled = TRUE]
      ELSE LET planned == IF cow.planned_conception_date = NoDay
                            THEN today + Max(1, sp)
                            ELSE cow.planned_conception_date
               c1 == [cow EXCEPT !.planned_conception_date = planned]
           IN  IF today >= planned THEN Ticked(conceive(c1, today, gd, dtd))
                                   ELSE Ticked(c1)

\* Simulation._tick_pregnant
_tick_pregnant(cow, today) ==
    IF cow.planned_dry_date # NoDay /\ today >= cow.planned_dry_date
      THEN [Ticked([set_status(cow, "dry") EXCEPT
                       !.dry_date = today, !.days_in_current_status = 0])
              EXCEPT !.dryoff = TRUE]
      ELSE Ticked(cow)

\* the ticks of step_day falling through from one status to the next
tick_fall_through(cow, today) ==
    UNION {
      {IF t1.cow.status = "ready_for_breeding"
         THEN _tick_ready_for_breeding(t1.cow, today, sp, gd, dtd) ELSE t1 :
           gd \in sample_gestation_days, dtd \in conception_to_dry_days} :
        t1 \in {IF cow.status = "fresh" THEN _tick_fresh(cow, sp) ELSE Ticked(cow) :
                  sp \in service_period_days},
        sp \in service_period_days}

\* the if / elif chain of step_day on the status of the cow: every outcome
\* the draws of the day can give
tick(cow, today) ==
    CASE cow.status = "heifer" ->
           {_tick_heifer(cow, today, age, gd) :
               age \in age_first_insem_days, gd \in sample_gestation_days}
      [] cow.status \in {"pregnant_heifer", "dry"} ->
           {_tick_calving(cow, today, heifer) : heifer \in BOOLEAN}
      [] cow.status = "fresh" ->
           {_tick_fresh(cow, sp) : sp \in service_period_days}
      [] cow.status = "ready_for_breeding" ->
           {_tick_ready_for_breeding(cow, today, sp, gd, dtd) :
               sp \in service_period_days, gd \in sample_gestation_days,
               dtd \in conception_to_dry_days}
      [] cow.status = "pregnant" -> {_tick_pregnant(cow, today)}
      [] OTHER -> {Ticked(cow)}

\* {d: n for d, n in manual_purchase_plan}.get(d, 0): the last entry of a
\* date is the one the dict keeps
plan_get(plan, d) ==
    LET entries == {i \in 1..Len(plan) : plan[i][1] = d}
    IN  IF entries = {} THEN 0
        ELSE plan[CHOOSE i \in entries : \A k \in entries : k <= i][2]

\* Simulation._projected_status
_projected_status(cow, future_day) ==
    IF cow.status = "culled" THEN "culled"
    ELSE IF cow.planned_calving_date # NoDay /\ future_day >= cow.planned_calving_date
      THEN "fresh"
    ELSE IF cow.planned_dry_date # NoDay /\ future_day >= cow.planned_dry_date
      THEN "dry"
    ELSE IF cow.conception_date # NoDay /\ cow.planned_calving_date # NoDay
      THEN "pregnant"
    ELSE IF cow.status = "heifer"
      THEN (IF cow.planned_first_insem_date # NoDay
                 /\ future_day >= cow.planned_first_insem_date
              THEN "pregnant_heifer" ELSE "heifer")
    ELSE cow.status

\* Simulation.forecast_milking_count
forecast_milking_count(herd, future_day) ==
    Cardinality({i \in 1..Len(herd) :
        _projected_status(herd[i], future_day)
            \in {"fresh", "ready_for_breeding", "pregnant"}})

\* AutoCounterPurchasePolicy.purchases_today without the test of the day
auto_counter_any_day(policy, today) ==
    IF policy.balance < 0 THEN 0 - policy.balance ELSE 0

\* AutoCounterPurchasePolicy.purchases_today
auto_counter(policy, today) ==
    IF ~is_month_start(today) THEN 0
    ELSE IF policy.balance < 0 THEN 0 - policy.balance ELSE 0

\* purchase_policy.purchases_today(sim, manual_planned) of the three policies
purchases_today(policy, s, manual_planned) ==
    CASE policy.name = "manual" -> plan_get(policy.plan, s.today)
      [] policy.name = "auto_counter" -> auto_counter(policy, s.today)
      [] policy.name = "auto_forecast" ->
           IF ~is_month_start(s.today) THEN 0
           ELSE LET forecast == forecast_milking_count(s.herd,
                                    s.today + cfg.lead_time_days)
                    need == policy.target_milking - forecast
                IN  IF need <= 0 THEN 0 ELSE need

\* on_added and on_removed: the counter of AutoCounterPurchasePolicy, nothing
\* for the other policies
on_added(policy, count) ==
    IF policy.name = "auto_counter" THEN [policy EXCEPT !.balance = @ + count]
    ELSE policy
on_removed(policy, count) ==
    IF policy.name = "auto_counter" THEN [policy EXCEPT !.balance = @ - count]
    ELSE policy

\* the draws of one purchased heifer
PurchaseDraws ==
    [days_to_calving : cfg.purchased_days_to_calving_lo..cfg.purchased_days_to_calving_hi,
     gd : sample_gestation_days, age_insem : age_first_insem_days]

\* Simulation._buy_pregnant_heifers: every herd the draws can give
_buy_pregnant_heifers(s, count, mode) ==
    IF count <= 0 THEN {s}
    ELSE {[s EXCEPT
             !._purchases_today = @ + count,
             !._purchases_since_last_record = @ + count,
             !.purchase_log[mode] = Append(@, <<s.today, count>>),
             !.herd = @ \o [i \in 1..count |->
                 LET calving_date == s.today + draws[i].days_to_calving
                     conception_date == calving_date - draws[i].gd
                     birth == conception_date
                                - Max(draws[i].age_insem, cfg.min_first_insem_age_days)
                 IN  [Cow(s.next_obj + i - 1, <<"PURCHASE", s.today, i - 1>>,
                          birth, "pregnant_heifer") EXCEPT
                        !.conception_date = conception_date,
                        !.planned_calving_date = calving_date]],
             !.purchase_policy = on_added(@, count),
             !.next_obj = @ + count] :
          draws \in [1..count -> PurchaseDraws]}

\* the list comprehension that drops the culled ids, dropping nothing
remove_culled_keeps_all(herd, culled_ids) == herd

\* self.herd = [c for c in self.herd if c.id not in culled_ids]
remove_culled(herd, culled_ids) ==
    SelectSeq(herd, LAMBDA c : c.id \notin culled_ids)

RECURSIVE dim_sum(_)
\* dim_sum of _record_metrics and of _initial_snapshot: days_in_milk summed
\* over the milking cows of a herd
dim_sum(herd) ==
    IF herd = <<>> THEN 0
    ELSE (IF is_milking(Head(herd)) THEN Head(herd).days_in_milk ELSE 0)
            + dim_sum(Tail(herd))

\* the counts of Simulation._record_metrics
DailyMetrics(s) ==
    LET n(status) == Cardinality({i \in 1..Len(s.herd) : s.herd[i].status = status})
        milking == Cardinality({i \in 1..Len(s.herd) : is_milking(s.herd[i])})
    IN  [day |-> s.today,
         milking_count |-> milking,
         dry_count |-> n("dry"),
         heifer_count |-> n("heifer"),
         pregnant_heifer_count |-> n("pregnant_heifer"),
         avg_days_in_milk |-> IF milking # 0
                                THEN (dim_sum(s.herd) * Unit) \div milking
                                ELSE float(0),
         culled_count |-> IF s.record_monthly THEN s._culled_since_last_record
                          ELSE s._culled_today,
         calvings_count |-> IF s.record_monthly THEN s._calvings_since_last_record
                            ELSE s._calvings_today,
         dryoffs_count |-> IF s.record_monthly THEN s._dryoffs_since_last_record
                           ELSE s._dryoffs_today,
         purchases_in_count |-> IF s.record_monthly
                                  THEN s._purchases_since_last_record
                                  ELSE s._purchases_today,
         heifer_intros_count |-> 0]

\* Simulation._record_metrics
_record_metrics(s) ==
    LET s1 == [s EXCEPT !.history = Append(@, DailyMetrics(s))]
    IN  IF s.record_monthly
          THEN [s1 EXCEPT !._culled_since_last_record = 0,
                          !._calvings_since_last_record = 0,
                          !._dryoffs_since_last_record = 0,
                          !._purchases_since_last_record = 0]
          ELSE s1

\* one iteration of the loop of step_day over self.herd, on the cow at k:
\* every outcome of the cull draw and of the tick
visit(acc, k) ==
    LET cow == acc.s.herd[k]
        today == acc.s.today
        culled == [acc EXCEPT
                     !.s.herd[k] = [set_status(cow, "culled") EXCEPT !.culled_on = today],
                     !.culled_ids = @ \cup {cow.id},
                     !.s.purchase_policy = on_removed(@, 1),
                     !.s._culled_today = @ + 1,
                     !.s._culled_since_last_record = @ + 1]
        ticked(t) ==
            [acc EXCEPT
               !.s.herd[k] = [t.cow EXCEPT
                                !.days_in_milk = IF is_milking(t.cow) THEN @ + 1 ELSE @,
                                !.days_in_current_status = @ + 1,
                                !.culled_on = IF t.culled THEN today ELSE @],
               !.culled_ids = IF t.culled THEN @ \cup {cow.id} ELSE @,
               !.s.purchase_policy = IF t.culled THEN on_removed(@, 1) ELSE @,
               !.s._culled_today = IF t.culled THEN @ + 1 ELSE @,
               !.s._culled_since_last_record = IF t.culled THEN @ + 1 ELSE @,
               !.s._calvings_today = IF t.calving THEN @ + 1 ELSE @,
               !.s._calvings_since_last_record = IF t.calving THEN @ + 1 ELSE @,
               !.s._dryoffs_today = IF t.dryoff THEN @ + 1 ELSE @,
               !.s._dryoffs_since_last_record = IF t.dryoff THEN @ + 1 ELSE @,
               !.new_animals =
                   IF t.calving /\ t.heifer
                     THEN Append(@, Cow(acc.s.next_obj,
                                        <<"BORN", today, Len(acc.new_animals)>>,
                                        today, "heifer"))
                     ELSE @,
               !.s.next_obj = IF t.calving /\ t.heifer THEN @ + 1 ELSE @]
    IN  {culled} \cup {ticked(t) : t \in tick(cow, today)}

RECURSIVE herd_loop(_, _)
\* for cow in self.herd: every accumulated outcome from the cow at k on
herd_loop(acc, k) ==
    IF k > Len(acc.s.herd) THEN {acc}
    ELSE UNION {herd_loop(a, k + 1) : a \in visit(acc, k)}

\* the end of step_day: culled ids leave the herd, the calves join it, the
\* metrics are recorded and the day advances
end_of_day(acc) ==
    LET s == acc.s
        kept == IF acc.culled_ids # {} THEN remove_culled(s.herd, acc.culled_ids)
                ELSE s.herd
        gone == SelectSeq(s.herd, LAMBDA c :
                    \A i \in 1..Len(kept) : kept[i].obj # c.obj)
        s1 == [s EXCEPT
                 !.herd = kept \o acc.new_animals,
                 !.archived = @ \o gone,
                 !.purchase_policy = IF acc.new_animals # <<>>
                                       THEN on_added(@, Len(acc.new_animals)) ELSE @,
                 !._born_today = Len(acc.new_animals)]
        s2 == IF ~s1.record_monthly \/ is_month_start(s1.today)
                THEN _record_metrics(s1) ELSE s1
    IN  [s2 EXCEPT !.today = @ + 1]

\* Simulation.step_day: every Simulation the draws of the day can leave
step_day(s) ==
    LET s0 == [s EXCEPT
                 !._culled_today = 0, !._calvings_today = 0,
                 !._dryoffs_today = 0, !._purchases_today = 0,
                 !._born_today = 0,
                 !.herd = [i \in 1..Len(s.herd) |->
                             [s.herd[i] EXCEPT !.prev = s.herd[i].status,
                                               !.changes = 0]]]
        manual_cnt == plan_get(s0.manual_plan, s0.today)
        auto_cnt == purchases_today(s0.purchase_policy, s0, manual_cnt)
        mode == IF s0.purchase_policy.name = "auto_counter" THEN "auto_counter"
                ELSE "auto_forecast"
        bought == UNION {_buy_pregnant_heifers(s1, auto_cnt, mode) :
                            s1 \in _buy_pregnant_heifers(s0, manual_cnt, "manual")}
    IN  UNION {{end_of_day(acc) :
                  acc \in herd_loop([s |-> [s2 EXCEPT !._after_purchase = Len(s2.herd)],
                                     new_animals |-> <<>>, culled_ids |-> {}], 1)} :
               s2 \in bought}

\* Simulation.__init__ on the policy _run_one builds for the policy name
Simulation(initial_cows, start_date, policy_name, manual_purchase_plan, record_monthly) ==
    [herd |-> initial_cows, today |-> start_date, start_date |-> start_date,
     purchase_policy |->
        [name |-> policy_name,
         plan |-> IF policy_name = "manual" THEN manual_purchase_plan ELSE <<>>,
         balance |-> 0,
         target_milking |->
            IF policy_name = "auto_forecast"
              THEN Cardinality({i \in 1..Len(initial_cows) :
                                   is_milking(initial_cows[i])})
              ELSE 0],
     manual_plan |-> manual_purchase_plan,
     history |-> <<>>,
     purchase_log |-> [manual |-> <<>>, auto_counter |-> <<>>,
                       auto_forecast |-> <<>>],
     record_monthly |-> record_monthly,
     _culled_today |-> 0, _culled_since_last_record |-> 0,
     _calvings_today |-> 0, _calvings_since_last_record |-> 0,
     _dryoffs_today |-> 0, _dryoffs_since_last_record |-> 0,
     _purchases_today |-> 0, _purchases_since_last_record |-> 0,
     _born_today |-> 0, _after_purchase |-> Len(initial_cows),
     archived |-> <<>>, next_obj |-> Len(initial_cows) + 1,
     initial_size |-> Len(initial_cows)]

\* the day the runs of the model start: the report date of the dataset
StartDate == 1

\* cows as load_active_cows and determine_status leave them on the report
\* date today: one or two of every status, with and without planned dates,
\* days_in_milk as the dataset gives it
LoadedCowsAt(today) ==
    LET c(status) == Cow(0, <<"cow", 0>>, today - 1, status)
    IN  {[c("heifer") EXCEPT !.days_in_current_status = 1],
         [c("pregnant_heifer") EXCEPT !.conception_date = today - 1,
                                      !.planned_calving_date = today + 1],
         [c("pregnant_heifer") EXCEPT !.conception_date = today - 1],
         [c("fresh") EXCEPT !.last_calving_date = today],
         [c("ready_for_breeding") EXCEPT !.last_calving_date = today - 1,
                                         !.days_in_milk = 1],
         [c("ready_for_breeding") EXCEPT !.last_calving_date = today - 4,
                                         !.days_in_current_status = 3,
                                         !.days_in_milk = 4],
         [c("pregnant") EXCEPT !.last_calving_date = today - 3,
                               !.conception_date = today - 1,
                               !.days_in_milk = 3,
                               !.planned_dry_date = today + 1,
                               !.planned_calving_date = today + 2],
         [c("dry") EXCEPT !.last_calving_date = today - 4,
                          !.conception_date = today - 2,
                          !.dry_date = today - 1,
                          !.days_in_milk = 2,
                          !.planned_calving_date = today + 1]}

LoadedCows == LoadedCowsAt(StartDate)

\* the second cow of a herd of two
SecondCows == {c \in LoadedCows : c.status = "heifer"}

\* base herds: the animal numbers of the dataset are distinct
BaseHerds ==
    {<<[c EXCEPT !.obj = 1, !.id = <<"cow", 1>>]>> : c \in LoadedCows}
      \cup {<<[c EXCEPT !.obj = 1, !.id = <<"cow", 1>>],
              [d EXCEPT !.obj = 2, !.id = <<"cow", 2>>]>> :
                 c \in LoadedCows, d \in SecondCows}

\* _build_manual_purchase_plan(params): (date_in, count) of every item
ManualPlans ==
    {<<>>, <<<<StartDate + 1, 1>>>>, <<<<StartDate + 2, 1>>>>,
     <<<<StartDate + 1, 1>>, <<StartDate + 1, 1>>>>}

\* the arguments _run_seed_job passes to _run_one: purchases come with the
\* manual policy only, and the backend records monthly
RunOneArgs ==
    {[policy |-> "manual", manual_purchase_plan |-> plan,
      record_monthly |-> TRUE] : plan \in ManualPlans}
      \cup {[policy |-> p, manual_purchase_plan |-> <<>>,
              record_monthly |-> TRUE] : p \in {"auto_counter", "auto_forecast"}}

\* no event has been seen
NoEvents == [culls |-> 0, calvings |-> 0, dryoffs |-> 0, purchases_in |-> 0]

\* a call of Simulation.run(days) and what is made of its history
RunOf(base_herd, report_date, target_dates, days) ==
    [pc |-> "run", base_herd |-> base_herd, report_date |-> report_date,
     target_dates |-> target_dates, days |-> days, seen |-> NoEvents,
     rows |-> <<>>, events |-> <<>>]

SimFrame ==
    /\ UNCHANGED <<now, busUp, rows, queue, store, published, pending, starts,
                   histVars>>
    /\ UNCHANGED workerVars
    /\ UNCHANGED clientVars
    /\ UNCHANGED <<apiVars, forecastVars, legacyVars>>

\* one iteration of Simulation.run(days); seen adds up the events of the days
StepDay ==
    /\ sim # NoneObj
    /\ run.pc = "run"
    /\ sim.today < sim.start_date + run.days
    /\ sim' \in step_day(sim)
    /\ run' = [run EXCEPT
                 !.seen.culls = @ + sim'._culled_today,
                 !.seen.calvings = @ + sim'._calvings_today,
                 !.seen.dryoffs = @ + sim'._dryoffs_today,
                 !.seen.purchases_in = @ + sim'._purchases_today]
    /\ SimFrame

InitSim ==
    /\ InitPipeline
    /\ \A j \in Jobs : rows[j] = AbsentRow
    /\ IdleForecast
    /\ IdleLegacy
    /\ \E base_herd \in BaseHerds, args \in RunOneArgs :
          /\ sim = Simulation(base_herd, StartDate, args.policy,
                              args.manual_purchase_plan, args.record_monthly)
          /\ run = RunOf(base_herd, StartDate, <<StartDate>>, MaxDays)

SpecSim == InitSim /\ [][StepDay]_vars

\* ------------------------------------------- herd_m5: the outputs of one run
\* month_starts_next on day numbers: the first days of the months months that
\* follow the month of from_date
month_starts_next_days(from_date, months) ==
    [k \in 1..months |-> (from_date \div MonthLen + k) * MonthLen]

\* _initial_snapshot on the herd load_active_cows returned
_initial_snapshot_herd(base_herd, snap_date) ==
    LET live == SelectSeq(base_herd, LAMBDA c : c.status # "culled")
        n(status) == Cardinality({i \in 1..Len(live) : live[i].status = status})
        milking == Cardinality({i \in 1..Len(live) : is_milking(live[i])})
    IN  [date |-> snap_date, milking_count |-> milking, dry_count |-> n("dry"),
         heifer_count |-> n("heifer"),
         pregnant_heifer_count |-> n("pregnant_heifer"),
         avg_days_in_milk |-> IF milking # 0
                                THEN (dim_sum(live) * Unit) \div milking
                                ELSE NoNumber]

\* _metric_to_row on a DailyMetrics
_metric_to_row_herd(metric) ==
    [date |-> metric.day, milking_count |-> metric.milking_count,
     dry_count |-> metric.dry_count, heifer_count |-> metric.heifer_count,
     pregnant_heifer_count |-> metric.pregnant_heifer_count,
     avg_days_in_milk |-> metric.avg_days_in_milk]

\* metrics_by_date.get(d), and _find_latest_metric_before when there is none;
\* the history is in the order of its days
metric_for(history, d) ==
    LET at == {i \in DOMAIN history : history[i].day = d}
        before == {i \in DOMAIN history : history[i].day <= d}
    IN  IF at # {} THEN history[CHOOSE i \in at : \A k \in at : k <= i]
        ELSE IF before # {}
               THEN history[CHOOSE i \in before : \A k \in before : k <= i]
        ELSE NoneObj

\* _build_run_outputs on the history of a run: rows, and events as the list of
\* its values in the order of their keys
_build_run_outputs_herd(history, base_herd, report_date, target_dates) ==
    LET initial == _initial_snapshot_herd(base_herd, report_date)
        later == SelectSeq(target_dates, LAMBDA d : d # report_date)
    IN  [rows |->
            [i \in DOMAIN target_dates |->
                LET d == target_dates[i]
                    metric == metric_for(history, d)
                IN  IF d = report_date THEN initial
                    ELSE IF metric = NoneObj THEN [initial EXCEPT !.date = d]
                    ELSE [_metric_to_row_herd(metric) EXCEPT !.date = d]],
         events |->
            [i \in DOMAIN later |->
                LET d == later[i]
                    metric == metric_for(history, d)
                IN  IF metric = NoneObj
                      THEN [month |-> d, calvings |-> 0, dryoffs |-> 0,
                            culls |-> 0, purchases_in |-> 0]
                      ELSE [month |-> d, calvings |-> metric.calvings_count,
                            dryoffs |-> metric.dryoffs_count,
                            culls |-> metric.culled_count,
                            purchases_in |-> metric.purchases_in_count]]]

\* the report dates of the datasets: the last and the first day of a month
ReportDates == {StartDate, StartDate + 1}

\* target_dates and total_days of run_forecast_herd_m5 without a future_date
target_dates_days(report_date, horizon_months) ==
    <<report_date>> \o month_starts_next_days(report_date, horizon_months)
total_days(report_date, horizon_months) ==
    LET target_dates == target_dates_days(report_date, horizon_months)
    IN  target_dates[Len(target_dates)] - report_date + 1

\* the herds of one loaded cow
SmallHerds(report_date) ==
    {<<[c EXCEPT !.obj = 1, !.id = <<"cow", 1>>]>> : c \in LoadedCowsAt(report_date)}

\* the manual plans of SpecRun: a purchase on the report date or on the day after
RunPlans(report_date) ==
    {<<>>, <<<<report_date, 1>>>>, <<<<report_date + 1, 1>>>>}

\* the end of _run_seed_job: Simulation.run(days) has returned its history
BuildRunOutputs ==
    /\ sim # NoneObj
    /\ run.pc = "run"
    /\ sim.today = sim.start_date + run.days
    /\ LET out == _build_run_outputs_herd(sim.history, run.base_herd,
                                          run.report_date, run.target_dates)
       IN  run' = [run EXCEPT !.pc = "done", !.rows = out.rows,
                              !.events = out.events]
    /\ UNCHANGED sim
    /\ SimFrame

\* _run_seed_job on a dataset and a scenario whose run fits in MaxDays days
InitRun ==
    /\ InitPipeline
    /\ \A j \in Jobs : rows[j] = AbsentRow
    /\ IdleForecast
    /\ IdleLegacy
    /\ \E report_date \in ReportDates, horizon_months \in 1..MaxHorizon :
          /\ total_days(report_date, horizon_months) <= MaxDays
          /\ \E base_herd \in SmallHerds(report_date),
                policy \in {"manual", "auto_counter", "auto_forecast"},
                plan \in RunPlans(report_date) :
                /\ policy # "manual" => plan = <<>>
                /\ sim = Simulation(base_herd, report_date, policy, plan, TRUE)
                /\ run = RunOf(base_herd, report_date,
                               target_dates_days(report_date, horizon_months),
                               total_days(report_date, horizon_months))

NextRun == StepDay \/ BuildRunOutputs

SpecRun == InitRun /\ [][NextRun]_vars

\* ------------------------------------------- the event-queue engine (legacy)
\* an engine handles at most MaxSeq events, MaxInitial of them pushed by
\* run_one before SimulationEngine.run
MaxSeq == 4
MaxInitial == 2
\* days from a successful insemination to the calving and to the dry-off,
\* from a calving to the next insemination, and the age of a first
\* insemination, in days of the model's calendar
CalvingAfter == 3
DryoffAfter == 2
ServicePeriod == 3
HeiferAge == 6

EventTypes == {"SUCCESS_INSEM", "DRYOFF", "CALVING", "CULL", "PURCHASE_IN",
               "HEIFER_INTRO"}

\* Event(time, seq, type): events are ordered by time, then by seq
event_lt(a, b) == a.time < b.time \/ (a.time = b.time /\ a.seq < b.seq)

\* SimulationEngine.push
push(e, time, et) ==
    [e EXCEPT !._seq = @ + 1,
              !._q = @ \cup {[time |-> time, seq |-> e._seq + 1, type |-> et]}]

RECURSIVE push_all(_, _)
\* the calls of push one handler makes, in their order
push_all(e, pushes) ==
    IF pushes = <<>> THEN e
    ELSE push_all(push(e, Head(pushes).time, Head(pushes).type), Tail(pushes))

RECURSIVE heappop_all(_)
\* heapq.heappop until the heap is empty: the events from the least on
heappop_all(q) ==
    IF q = {} THEN <<>>
    ELSE LET least == CHOOSE a \in q : \A b \in q \ {a} : event_lt(a, b)
         IN  <<least>> \o heappop_all(q \ {least})

\* SimulationEngine.pop_ready: out, the queue keeps the other events
pop_ready(q, until) == heappop_all({ev \in q : ev.time <= until})

\* sample_cull_date(rng, animal, t, horizon_end): None, or a day from t on
CullDates(t, horizon_end) == {d \in t..(t + MonthLen) : d <= horizon_end}

\* the calls of push a handler can make for an event at t; <<>> when the
\* animal is not alive, is pregnant already or no date is drawn
HandlerPushes(ev, horizon_end) ==
    LET t == ev.time
        at(time, et) == [time |-> time, type |-> et]
        culls == {<<>>} \cup {<<at(d, "CULL")>> : d \in CullDates(t, horizon_end)}
    IN  CASE ev.type = "SUCCESS_INSEM" ->
               {<<>>, <<at(t + CalvingAfter, "CALVING")>>,
                <<at(t + CalvingAfter, "CALVING"), at(t + DryoffAfter, "DRYOFF")>>}
          [] ev.type = "CALVING" ->
               {<<>>, <<at(t + ServicePeriod, "SUCCESS_INSEM")>>}
                 \cup {c \o <<at(t + HeiferAge, "SUCCESS_INSEM"),
                              at(t + ServicePeriod, "SUCCESS_INSEM")>> : c \in culls}
          [] ev.type \in {"PURCHASE_IN", "HEIFER_INTRO"} ->
               {<<>>} \cup {<<at(t + k, "CALVING")>> \o c :
                               k \in 0..CalvingAfter, c \in culls}
          [] OTHER -> {<<>>}

\* the engine run_one builds, before it pushes anything
SimulationEngine(report_date, snapshot_dates) ==
    [pc |-> "init", _seq |-> 0, _q |-> {}, snapshot_dates |-> snapshot_dates,
     horizon_end |-> snapshot_dates[Len(snapshot_dates)], batch |-> <<>>,
     second |-> FALSE, handled |-> <<>>, out |-> <<>>]

EngineFrame ==
    /\ UNCHANGED <<now, busUp, rows, queue, store, published, pending, starts,
                   histVars>>
    /\ UNCHANGED workerVars
    /\ UNCHANGED clientVars
    /\ UNCHANGED <<apiVars, forecastVars, simVars, samplers, cull_policy>>

\* run_one, lines 167-191: the pushes for the loaded animals, the purchases
\* of the scenario and init_schedules
EnginePush ==
    /\ engine.pc = "init"
    /\ engine._seq < MaxInitial
    /\ \E time \in Head(engine.snapshot_dates)..engine.horizon_end,
          et \in EventTypes \ {"HEIFER_INTRO"} :
          engine' = push(engine, time, et)
    /\ EngineFrame

\* SimulationEngine.run is called
EngineRun ==
    /\ engine.pc = "init"
    /\ engine' = [engine EXCEPT !.pc = "step"]
    /\ EngineFrame

\* step_events_until(snap): pop_ready(until)
StepEventsUntil ==
    /\ engine.pc = "step"
    /\ LET until == Head(engine.snapshot_dates)
           ready == pop_ready(engine._q, until)
       IN  engine' = [engine EXCEPT
                        !.pc = "handle", !.batch = ready,
                        !._q = @ \ {ready[i] : i \in DOMAIN ready}]
    /\ EngineFrame

\* one iteration of the loop of step_events_until: the handler of ev
HandleEvent ==
    /\ engine.pc = "handle"
    /\ engine.batch # <<>>
    /\ LET ev == Head(engine.batch)
       IN  \E pushes \in HandlerPushes(ev, engine.horizon_end) :
              /\ engine._seq + Len(pushes) <= MaxSeq
              /\ engine' = push_all([engine EXCEPT
                                        !.batch = Tail(@),
                                        !.handled = Append(@, ev)], pushes)
    /\ EngineFrame

\* SimulationEngine.run after step_events_until: on a month start
\* apply_replacement_policy, which may push a HEIFER_INTRO, and a second
\* step_events_until; then the snapshot
EndStep ==
    /\ engine.pc = "handle"
    /\ engine.batch = <<>>
    /\ LET snap == Head(engine.snapshot_dates)
       IN  IF is_month_start(snap) /\ ~engine.second
             THEN \E deficit \in BOOLEAN :
                     /\ deficit => engine._seq < MaxSeq
                     /\ engine' =
                          [(IF deficit THEN push(engine, snap, "HEIFER_INTRO")
                            ELSE engine) EXCEPT !.pc = "step", !.second = TRUE]
             ELSE engine' = [engine EXCEPT
                               !.out = Append(@, snap),
                               !.snapshot_dates = Tail(@),
                               !.second = FALSE,
                               !.pc = IF Tail(engine.snapshot_dates) = <<>>
                                        THEN "done" ELSE "step"]
    /\ EngineFrame

InitEngine ==
    /\ InitPipeline
    /\ \A j \in Jobs : rows[j] = AbsentRow
    /\ IdleForecast
    /\ sim = NoneObj /\ run = NoneObj
    /\ samplers = NoneObj /\ cull_policy = NoneObj
    /\ engine = SimulationEngine(StartDate,
                    target_dates_days(StartDate, MaxHorizon))

NextEngine ==
    EnginePush \/ EngineRun \/ StepEventsUntil \/ HandleEvent \/ EndStep

SpecEngine == InitEngine /\ [][NextEngine]_vars

\* ------------------------------------------- samplers.py called directly
\* the empirical lists hold at most MaxList values
MaxList == 2
\* values of the lists: first-insemination ages, service periods, days to dry
AgeValues == {0, 420}
ServiceValues == {0, 90}
DryValues == {150, 220, 230}
ListsOver(S) == UNION {[1..n -> S] : n \in 0..MaxList}

RECURSIVE sum(_)
sum(values) == IF values = <<>> THEN 0 ELSE Head(values) + sum(Tail(values))
min(values) == CHOOSE x \in {values[i] : i \in DOMAIN values} : \A i \in DOMAIN values : x <= values[i]
max(values) == CHOOSE x \in {values[i] : i \in DOMAIN values} : \A i \in DOMAIN values : x >= values[i]

\* sum(values) / len(values), in thousandths
mean(values) == (sum(values) * Unit) \div Len(values)
\* sum((x - m) ** 2 for x in values) / max(1, len(values) - 1), in thousandths
\* (x - m = (n * x - sum(values)) / n with n = len(values))
variance(values) ==
    LET n == Len(values)
        sq == [i \in DOMAIN values |->
                  (n * values[i] - sum(values)) * (n * values[i] - sum(values))]
        den == n * n * Max(1, n - 1)
    IN  (sum(sq) \div den) * Unit + ((sum(sq) % den) * Unit) \div den

\* math.sqrt of a value in thousandths, in thousandths, rounded down
RECURSIVE sqrt_between(_, _, _)
sqrt_between(n, lo, hi) ==
    IF lo >= hi THEN lo
    ELSE LET mid == (lo + hi + 1) \div 2
         IN  IF mid * mid <= n THEN sqrt_between(n, mid, hi)
             ELSE sqrt_between(n, lo, mid - 1)
\* (46340 is the largest root a 32-bit square has)
sqrt(x) == sqrt_between(x * Unit, 0, Min(x * Unit, 46340))

\* fit_lognormal_params: fit "default" is the pair (0.0, 1.0); fit "moments"
\* is mu = log(m) - 0.5 * sigma2 and sigma = sqrt(max(1e-9, sigma2)) with
\* sigma2 = log(1 + v / m^2), kept as the mean m and the variance v they are
\* functions of
fit_lognormal_params(values) ==
    IF values = <<>>
      THEN [raised |-> "ValueError", fit |-> None, m |-> 0, v |-> 0,
            lo |-> 0, hi |-> 0]
    ELSE IF mean(values) <= 0
      THEN [raised |-> None, fit |-> "default", m |-> 0, v |-> 0,
            lo |-> min(values), hi |-> max(values)]
    ELSE [raised |-> None, fit |-> "moments", m |-> mean(values),
          v |-> variance(values), lo |-> min(values), hi |-> max(values)]

LogNormalSampler(p) ==
    [kind |-> "LogNormalSampler", fit |-> p.fit, m |-> p.m, v |-> p.v,
     lo |-> p.lo, hi |-> p.hi]

\* lines 116-148: the sampler of days to dry
dry_sampler(days_to_dry) ==
    IF days_to_dry = <<>>
      THEN [kind |-> "TruncatedNormalSampler", mu |-> float(220),
            sigma |-> float(10), lo |-> 34, hi |-> 239]
    ELSE
      LET peak_vals == SelectSeq(days_to_dry, LAMBDA x : x >= 200)
          tail_vals == SelectSeq(days_to_dry, LAMBDA x : x < 200)
          peak == IF peak_vals # <<>>
                    THEN [mu |-> mean(peak_vals),
                          sigma |-> Max(float(1), sqrt(variance(peak_vals))),
                          lo |-> min(peak_vals), hi |-> max(peak_vals)]
                    ELSE [mu |-> float(220), sigma |-> float(5),
                          lo |-> 210, hi |-> 239]
          tail == IF tail_vals # <<>>
                       /\ Min(199, max(tail_vals)) >= min(tail_vals)
                    THEN [lo |-> min(tail_vals),
                          hi |-> Min(199, max(tail_vals))]
                    ELSE [lo |-> 34, hi |-> 199]
      IN  [kind |-> "MixtureDrySampler",
           p_peak |-> (Len(peak_vals) * Unit) \div Len(days_to_dry),
           mu_peak |-> peak.mu, sigma_peak |-> peak.sigma,
           peak_lo |-> peak.lo, peak_hi |-> peak.hi,
           tail_lo |-> tail.lo, tail_hi |-> tail.hi]

\* build_theoretical_samplers_from_empirical: the exception of a fit leaves
\* the function
build_theoretical_samplers_from_empirical(ages, service_periods, days_to_dry) ==
    LET a == fit_lognormal_params(ages)
        s == fit_lognormal_params(service_periods)
    IN  IF a.raised # None THEN [raised |-> a.raised]
        ELSE IF s.raised # None THEN [raised |-> s.raised]
        ELSE [raised |-> None,
              age_sampler |-> LogNormalSampler(a),
              sp_sampler |-> LogNormalSampler(s),
              dtd_sampler |-> dry_sampler(days_to_dry)]

SamplersFrame ==
    /\ UNCHANGED <<now, busUp, rows, queue, store, published, pending, starts,
                   histVars>>
    /\ UNCHANGED workerVars
    /\ UNCHANGED clientVars
    /\ UNCHANGED <<apiVars, forecastVars, simVars, engine, cull_policy>>

\* _prepare_model_config, line 262: the call with the empirical lists
BuildTheoreticalSamplers ==
    /\ samplers.pc = "args"
    /\ samplers' = [samplers EXCEPT
          !.pc = "done",
          !.out = build_theoretical_samplers_from_empirical(
                      samplers.ages, samplers.service_periods,
                      samplers.days_to_dry)]
    /\ SamplersFrame

InitSamplers ==
    /\ InitPipeline
    /\ \A j \in Jobs : rows[j] = AbsentRow
    /\ IdleForecast
    /\ sim = NoneObj /\ run = NoneObj
    /\ engine = NoneObj /\ cull_policy = NoneObj
    /\ \E ages \in ListsOver(AgeValues), service_periods \in ListsOver(ServiceValues),
          days_to_dry \in ListsOver(DryValues) :
          samplers = [pc |-> "args", ages |-> ages,
                      service_periods |-> service_periods,
                      days_to_dry |-> days_to_dry, out |-> NoneObj]

NextSamplers == BuildTheoreticalSamplers

SpecSamplers == InitSamplers /\ [][NextSamplers]_vars

\* ------------------------------------------ CullingPolicy called directly
\* hazards are kept in millionths
HazardUnit == Unit * Unit
\* timedelta(days=730) of the look-back window
CullWindowDays == 730
\* the least a + c of a stratum that gets an estimate
MinStratum == 30
\* the configured fallback_monthly_hazard: 0.0 and the default 0.008
FallbackArgs == {0, 8 * Unit}
GroupingArgs == {"lactation", "lactation_status"}

\* n equal rows of the dataset: the lactation, the status group of the
\* status column and the archive date (NoDay where the column is empty)
rows_of(lact, status, archive, n) ==
    IF n = 0 THEN {}
    ELSE {[lact |-> lact, status |-> status, archive |-> archive, n |-> n]}

\* datasets around the threshold: first-lactation rows alive, archived after
\* the report date, on the first day of the window and the day before it,
\* and a stratum of older cows that is empty or large
CullDatasets(report_date) ==
    {rows_of(1, "fresh", NoDay, alive) \cup rows_of(1, "fresh", report_date + 1, after)
       \cup rows_of(1, "fresh", report_date - CullWindowDays, inside)
       \cup rows_of(1, "fresh", report_date - CullWindowDays - 1, before)
       \cup rows_of(5, "dry", NoDay, old) \cup rows_of(5, "dry", report_date, 2 * old) :
       alive \in {0, 14, MinStratum - 1}, after \in {0, 1},
       inside \in {0, 1, 15, 16}, before \in {0, MinStratum},
       old \in {0, MinStratum}}

\* CullingPolicy._lact_group
_lact_group(lact) ==
    CASE lact <= 0 -> "L0"
      [] lact = 1 -> "L1"
      [] lact = 2 -> "L2"
      [] lact = 3 -> "L3"
      [] OTHER -> "L4+"

\* grp_row of estimate_from_dataset; the status group is the one of the row
grp_row(row, grouping) ==
    IF grouping = "lactation_status"
      THEN _lact_group(row.lact) \o "|" \o row.status
      ELSE _lact_group(row.lact)

\* int((frame["grp"] == g).sum()) over the rows of frame
RECURSIVE grp_count(_, _, _)
grp_count(frame, g, grouping) ==
    IF frame = {} THEN 0
    ELSE LET row == CHOOSE r \in frame : TRUE
         IN  (IF grp_row(row, grouping) = g THEN row.n ELSE 0)
                + grp_count(frame \ {row}, g, grouping)

\* c / max(1.0, (a + 0.5 * c) * 24.0) clamped to [0, 0.2], in millionths
hazard_estimate(a, c) ==
    Min((HazardUnit \div 10) * 2, Max(0, (c * HazardUnit) \div Max(1, (2 * a + c) * 12)))

\* lines 114-122 with an estimate for every stratum
stratum_hazard_no_floor(a, c, fallback_monthly_hazard) == hazard_estimate(a, c)

\* lines 114-122: the hazard of a stratum with a alive and c culled animals
stratum_hazard(a, c, fallback_monthly_hazard) ==
    IF a + c < MinStratum THEN fallback_monthly_hazard ELSE hazard_estimate(a, c)

\* CullingPolicy.estimate_from_dataset: monthly_hazard_by_group
estimate_from_dataset(df, report_date, fallback_monthly_hazard, grouping) ==
    LET window_start == report_date - CullWindowDays
        culled == {r \in df : r.archive # NoDay /\ r.archive >= window_start
                                 /\ r.archive <= report_date}
        alive == {r \in df : r.archive = NoDay \/ r.archive > report_date}
    IN  [g \in {grp_row(r, grouping) : r \in df} |->
            stratum_hazard(grp_count(alive, g, grouping),
                           grp_count(culled, g, grouping),
                           fallback_monthly_hazard)]

\* line 127 of sample_cull_date: the hazard the animal is sampled with
hazard_for(monthly_hazard_by_group, fallback_monthly_hazard, animal) ==
    IF _lact_group(animal.lactation_no) \in DOMAIN monthly_hazard_by_group
      THEN monthly_hazard_by_group[_lact_group(animal.lactation_no)]
      ELSE fallback_monthly_hazard

\* CullingPolicy.sample_cull_date: the dates the monthly trials can return;
\* a trial succeeds with probability hazard, any day of the month is drawn
sample_cull_date(hazard, start_date, end_date) ==
    LET first == (start_date \div MonthLen) * MonthLen
        months == {m \in first..(end_date - 1) : m % MonthLen = 0}
        hits == IF hazard >= HazardUnit THEN months \cap {first} ELSE months
    IN  IF hazard <= 0 THEN {NoDay}
        ELSE {Max(m + k, start_date) : m \in hits, k \in 0..(MonthLen - 1)}
               \cup (IF hazard < HazardUnit \/ months = {} THEN {NoDay} ELSE {})

\* the animals a cull date is sampled for
AnimalArgs ==
    {[lactation_no |-> 0, status |-> "heifer"],
     [lactation_no |-> 1, status |-> "fresh"],
     [lactation_no |-> 5, status |-> "dry"]}

CullFrame ==
    /\ UNCHANGED <<now, busUp, rows, queue, store, published, pending, starts,
                   histVars>>
    /\ UNCHANGED workerVars
    /\ UNCHANGED clientVars
    /\ UNCHANGED <<apiVars, forecastVars, simVars, engine, samplers>>

\* run_one, forecast.py lines 139-148: the culling policy of the scenario
BuildCullingPolicy ==
    /\ cull_policy.pc = "args"
    /\ cull_policy' = [cull_policy EXCEPT
          !.pc = "estimated",
          !.monthly_hazard_by_group =
              IF cull_policy.estimate_from_dataset
                THEN estimate_from_dataset(cull_policy.df, cull_policy.report_date,
                                           cull_policy.fallback_monthly_hazard,
                                           cull_policy.grouping)
                ELSE <<>>]
    /\ CullFrame

\* schedule_cull_if_needed, engine.py line 94: a cull date for one animal
SampleCullDate ==
    /\ cull_policy.pc = "estimated"
    /\ \E animal \in AnimalArgs :
          LET hazard == hazard_for(cull_policy.monthly_hazard_by_group,
                                   cull_policy.fallback_monthly_hazard, animal)
          IN  \E d \in sample_cull_date(hazard, cull_policy.report_date,
                                        cull_policy.report_date + MaxHorizon * MonthLen) :
                 cull_policy' = [cull_policy EXCEPT !.pc = "sampled",
                                    !.animal = animal, !.hazard = hazard, !.d = d]
    /\ CullFrame

InitCull ==
    /\ InitPipeline
    /\ \A j \in Jobs : rows[j] = AbsentRow
    /\ IdleForecast
    /\ sim = NoneObj /\ run = NoneObj
    /\ engine = NoneObj /\ samplers = NoneObj
    /\ \E df \in CullDatasets(StartDate), fallback_monthly_hazard \in FallbackArgs,
          grouping \in GroupingArgs, estimate \in BOOLEAN :
          cull_policy = [pc |-> "args", df |-> df, report_date |-> StartDate,
                         estimate_from_dataset |-> estimate,
                         fallback_monthly_hazard |-> fallback_monthly_hazard,
                         grouping |-> grouping, monthly_hazard_by_group |-> <<>>,
                         animal |-> NoneObj, hazard |-> NoNumber, d |-> NoDay]

NextCull == BuildCullingPolicy \/ SampleCullDate

SpecCull == InitCull /\ [][NextCull]_vars

KeysOf(row) == <<row.result_object_key, row.csv_object_key, row.xlsx_object_key>>

\* C1: once the status of a job is succeeded, failed or canceled, its status,
\* its error_message and its three artifact keys never change again, in every
\* interleaving of pipeline executions and start-up sweeps
C1_TerminalRowsNeverChange ==
    [][\A j \in Jobs :
          rows[j].status \in TerminalStatuses =>
             /\ rows'[j].status = rows[j].status
             /\ rows'[j].error_message = rows[j].error_message
             /\ KeysOf(rows'[j]) = KeysOf(rows[j])]_vars

\* C3: a job enters succeeded or failed only from running, never directly from
\* queued, over every interleaving of workers and the supervisor sweep
C3_TerminalOnlyFromRunning ==
    [][\A j \in Jobs :
          (rows'[j].status \in {SUCCEEDED, FAILED}
              /\ rows'[j].status # rows[j].status) =>
             rows[j].status = RUNNING]_vars

\* C4: run_forecast_job invoked for a job whose status is succeeded, failed or
\* canceled returns at its entry check: the worker is idle again and the
\* table, the store and the bus are as before
C4_TerminalEntryReturns ==
    [][\A w \in Workers :
          (pc[w] = "entry" /\ pc'[w] \notin {"entry", "down"}
              /\ get(rows[wjob[w]])
              /\ rows[wjob[w]].status \in TerminalStatuses) =>
             /\ pc'[w] = "idle"
             /\ UNCHANGED <<rows, store, published>>]_vars

\* C5: while the status of a job is running its stored progress_pct never
\* decreases, and completed_runs <= total_runs holds in every state
C5_ProgressMonotone ==
    /\ [](\A j \in Jobs : rows[j].completed_runs <= rows[j].total_runs)
    /\ [][\A j \in Jobs :
            (rows[j].status = RUNNING /\ rows'[j].status = RUNNING) =>
               rows'[j].progress_pct >= rows[j].progress_pct]_vars

\* C6: a job_succeeded event is published only after the row has been
\* succeeded, and a job whose status is succeeded has its three artifact
\* objects in the store (they were all put before mark_succeeded)
C6_ArtifactsThenSucceededThenEvent ==
    /\ \A j \in Jobs :
          (\E e \in published[j] : e.type = "job_succeeded") => j \in wasSucceeded
    /\ \A j \in Jobs :
          (get(rows[j]) /\ rows[j].status = SUCCEEDED) => ArtifactKeys(j) \subseteq store


\* C2: mark_running, update_progress, mark_failed and mark_succeeded called
\* for a job whose status is succeeded, failed or canceled return the row and
\* leave every column of it unchanged
C2_TerminalGuard ==
    [][\A j \in Submitted :
          ((RepoMarkRunning(j) \/ RepoUpdateProgress(j) \/ RepoMarkFailed(j)
               \/ RepoMarkSucceeded(j))
              /\ get(rows[j]) /\ rows[j].status \in TerminalStatuses) =>
             /\ lastCall'.returned = "row"
             /\ rows'[j] = rows[j]]_vars

\* mark_succeeded has been called on a failed row, which kept status failed
\* and got no artifact key
C2_Witness ==
    \E j \in Submitted :
       /\ lastCall.op = "mark_succeeded"
       /\ lastCall.before.status = FAILED
       /\ rows[j].status = FAILED
       /\ rows[j].result_object_key = NoKey

\* C7: a job running with started_at older than the stuck timeout is selected
\* by the sweep of a starting supervisor, reset to queued and its id pushed
\* onto the queue; a pipeline pass that reaches mark_succeeded for it (no
\* collaborator failed, no pass failed the job) leaves it succeeded with
\* completed_runs = total_runs
C7_StuckRecovery ==
    [][\A w \in Workers :
          /\ (pc[w] = "down" /\ pc'[w] # "down") =>
                \A j \in Jobs :
                   (rows[j].status = RUNNING /\ rows[j].deleted_at = NoTime
                       /\ rows[j].started_at < now - stuck_job_timeout_minutes)
                      => j \in stuck'[w]
          /\ \A j \in Jobs :
                (pc[w] = "sweep" /\ j \in stuck[w] /\ j \notin stuck'[w]
                    /\ pc'[w] # "down" /\ get(rows[j])) =>
                   /\ rows'[j].status = QUEUED
                   /\ requeued'[w] = Append(requeued[w], j)
          /\ (pc[w] = "enqueue" /\ pc'[w] # "down" /\ requeued'[w] # requeued[w]) =>
                queue' = Append(queue, Head(requeued[w]))
          /\ (pc[w] \in {"sweep", "enqueue"} /\ pc'[w] = "idle") =>
                (stuck'[w] = {} /\ requeued'[w] = <<>>)
          /\ (pc[w] = "mark_succeeded" /\ pc'[w] = "publish_done"
                 /\ wjob[w] \in swept /\ get(rows[wjob[w]])
                 /\ rows[wjob[w]].status \notin {FAILED, CANCELED}) =>
                /\ rows'[wjob[w]].status = SUCCEEDED
                /\ rows'[wjob[w]].completed_runs = rows'[wjob[w]].total_runs]_vars

\* a job the sweep requeued has been taken through mark_succeeded by a pass
C7_Witness ==
    \E w \in Workers :
       /\ pc[w] = "publish_done"
       /\ wjob[w] \in swept
       /\ rows[wjob[w]].status = SUCCEEDED
       /\ rows[wjob[w]].completed_runs = rows[wjob[w]].total_runs
       /\ rows[wjob[w]].started_at > stuck_job_timeout_minutes

\* C8: a start-up sweep requeues exactly the non-deleted running jobs with
\* started_at < now - stuck_timeout: at its end each of them is queued with
\* progress 0, completed_runs 0, no started_at and no finished_at and its id
\* is on the queue once; every other job is unchanged and not on the queue
C8_SweepExactlyStuck ==
    pc["w1"] = "idle" =>
       \A j \in Jobs :
          IF /\ rows0[j].status = RUNNING
             /\ rows0[j].deleted_at = NoTime
             /\ rows0[j].started_at < now - stuck_job_timeout_minutes
          THEN /\ rows[j].status = QUEUED
               /\ rows[j].progress_pct = 0
               /\ rows[j].completed_runs = 0
               /\ rows[j].started_at = NoTime
               /\ rows[j].finished_at = NoTime
               /\ Count(queue, j) = 1
          ELSE /\ rows[j] = rows0[j]
               /\ Count(queue, j) = 0

\* a finished sweep that requeued one job and left a running job with a more
\* recent started_at alone
C8_Witness ==
    /\ pc["w1"] = "idle"
    /\ \E j \in Jobs : rows0[j].status = RUNNING /\ rows[j].status = QUEUED
                          /\ Count(queue, j) = 1
    /\ \E j \in Jobs : rows0[j].status = RUNNING /\ rows[j] = rows0[j]
                          /\ rows0[j].started_at >= now - stuck_job_timeout_minutes
                          /\ Count(queue, j) = 0

\* C9: every job persisted as queued eventually reaches a terminal status
C9_QueuedEventuallyTerminal ==
    \A j \in Jobs :
       (rows[j].status = QUEUED) ~> (rows[j].status \in TerminalStatuses)

\* C10: a stream connection opened on a job that was not terminal, once the
\* job is terminal and its terminal event is on the bus, eventually sends a
\* terminal event to the client and is closed
C10_StreamSeesTerminalEvent ==
    (/\ cpc \in {"subscribing", "listening"}
     /\ rows[cjob].status \in {SUCCEEDED, FAILED}
     /\ \E e \in published[cjob] : e.type \in TerminalEventTypes)
       ~> (cpc = "closed" /\ csent[Len(csent)] \in TerminalEventTypes)

\* C11: the stream endpoint connected to a job whose status is succeeded,
\* failed or canceled sends exactly one event, the snapshot of the row
\* (job_succeeded for a succeeded job), and closes without subscribing
C11_TerminalSnapshotThenClose ==
    [][(/\ cpc = "accepted"
        /\ cpc' # "accepted"
        /\ get(rows[cjob])
        /\ rows[cjob].status \in TerminalStatuses) =>
          /\ csent' = <<SnapshotType(rows[cjob])>>
          /\ rows[cjob].status = SUCCEEDED => csent'[1] = "job_succeeded"
          /\ cpc' = "closed"
          /\ ~subscribed']_vars

\* the message starts with the code
HasCode(message, code) ==
    Len(message) >= Len(code) /\ SubSeq(message, 1, Len(code)) = code

\* C12: a publish that fails never fails the job: with the bus down every
\* pipeline step that publishes writes the row it writes with the bus up,
\* leaves the store alone and moves on to the same place, never to the
\* exception handler
C12_PublishFailureHarmless ==
    [][\A w \in Workers :
          ~busUp =>
             /\ (pc[w] = "mark_running" /\ pc'[w] \notin {"mark_running", "down"}) =>
                   /\ pc'[w] = "load"
                   /\ werr'[w] = werr[w]
                   /\ rows'[wjob[w]] = mark_running(rows[wjob[w]], InitialProgress,
                                           rows[wjob[w]].mc_runs, now)
                   /\ store' = store
             /\ (pc[w] = "simulate" /\ pc'[w] # "down" /\ wdone'[w] # wdone[w]) =>
                   /\ pc'[w] \in {"simulate", "put_result"}
                   /\ werr'[w] = werr[w]
                   /\ store' = store
             /\ (pc[w] = "publish_done" /\ pc'[w] \notin {"publish_done", "down"}) =>
                   /\ pc'[w] = "idle"
                   /\ rows' = rows
                   /\ store' = store
             /\ (pc[w] = "mark_failed" /\ pc'[w] \notin {"mark_failed", "down"}) =>
                   /\ pc'[w] = "idle"
                   /\ rows'[wjob[w]] = mark_failed(rows[wjob[w]], werr[w], now)
                   /\ store' = store]_vars

\* a job has been brought to succeeded, its artifacts stored, by an execution
\* none of whose publish calls reached the bus
C12_Witness ==
    \E j \in Jobs :
       /\ ~busUp
       /\ get(rows[j])
       /\ rows[j].status = SUCCEEDED
       /\ ArtifactKeys(j) \subseteq store
       /\ published[j] = {}
       /\ \A w \in Workers : wjob[w] # j

\* C13: an exception raised while the pipeline runs a job that is not terminal
\* reaches the handler with an INTERNAL_ERROR message (the S3Error of the
\* dataset fetch has its own code); the handler leaves the row failed with
\* that message, publishes job_failed when the bus is up, and the worker
\* waits for the next job id
C13_ExceptionFailsJob ==
    [][\A w \in Workers :
          /\ (pc[w] \in {"fetch", "simulate", "put_result", "put_csv", "put_xlsx"}
                 /\ pc'[w] = "mark_failed") =>
                \/ HasCode(werr'[w], "INTERNAL_ERROR: ")
                \/ pc[w] = "fetch" /\ werr'[w] = DatasetObjectMissing
          /\ (/\ pc[w] = "mark_failed"
              /\ pc'[w] \notin {"mark_failed", "down"}
              /\ HasCode(werr[w], "INTERNAL_ERROR: ")
              /\ get(rows[wjob[w]])
              /\ rows[wjob[w]].status \notin TerminalStatuses) =>
                /\ pc'[w] = "idle"
                /\ wjob'[w] = "none"
                /\ rows'[wjob[w]].status = FAILED
                /\ rows'[wjob[w]].error_message = werr[w]
                /\ busUp => JobEvent("job_failed", rows'[wjob[w]])
                                \in published'[wjob[w]]]_vars

\* the third put of the xlsx export failed: the job is failed with the
\* message of the handler, its job_failed event is on the bus and a worker
\* that ran it took another delivery
C13_Witness ==
    \E j \in Jobs :
       /\ rows[j].status = FAILED
       /\ rows[j].error_message = InternalError("put")
       /\ {ResultKey(j), CsvKey(j)} \subseteq store
       /\ XlsxKey(j) \notin store
       /\ \E e \in published[j] :
             e.type = "job_failed" /\ e.error_message = InternalError("put")
       /\ \A w \in Workers : pc[w] = "idle"

\* C14: when the dataset row or the dataset object is missing the pipeline
\* has run no batch and stored nothing; it marks the job failed with the
\* message coded DATASET_NOT_FOUND resp. DATASET_OBJECT_MISSING, publishes
\* exactly one event, the job_failed event, and pushes nothing onto the queue
C14_MissingDatasetFailsJob ==
    [][\A w \in Workers :
          /\ (pc[w] = "load" /\ pc'[w] = "mark_failed") =>
                HasCode(werr'[w], "DATASET_NOT_FOUND")
          /\ (pc[w] = "fetch" /\ pc'[w] = "mark_failed") =>
                \/ HasCode(werr'[w], "DATASET_OBJECT_MISSING")
                \/ HasCode(werr'[w], "INTERNAL_ERROR: ")
          /\ (pc[w] \in {"load", "fetch"} /\ pc'[w] = "mark_failed") =>
                /\ wdone[w] = 0
                /\ rows' = rows
                /\ store' = store
                /\ published' = published
          /\ (/\ pc[w] = "mark_failed"
              /\ pc'[w] \notin {"mark_failed", "down"}
              /\ werr[w] \in {DatasetNotFound, DatasetObjectMissing}
              /\ get(rows[wjob[w]])
              /\ rows[wjob[w]].status \notin TerminalStatuses) =>
                /\ pc'[w] = "idle"
                /\ wdone[w] = 0
                /\ rows'[wjob[w]].status = FAILED
                /\ rows'[wjob[w]].error_message = werr[w]
                /\ store' = store
                /\ queue' = queue
                /\ published'[wjob[w]] \subseteq published[wjob[w]]
                       \cup {JobEvent("job_failed", rows'[wjob[w]])}
                /\ busUp => JobEvent("job_failed", rows'[wjob[w]])
                                \in published'[wjob[w]]]_vars

\* a job failed for a missing dataset object: nothing stored, one terminal
\* event on its channel, the queue empty and the workers waiting
C14_Witness ==
    \E j \in Jobs :
       /\ rows[j].status = FAILED
       /\ rows[j].error_message = DatasetObjectMissing
       /\ rows[j].completed_runs = 0
       /\ store = {}
       /\ queue = <<>>
       /\ {e \in published[j] : e.type \in TerminalEventTypes}
             = {JobEvent("job_failed", rows[j])}
       /\ \A w \in Workers : pc[w] = "idle"

\* C15: a put and the dataset fetch are attempted at most 3 times; a failed
\* attempt changes nothing but the attempt count; the first success ends the
\* attempts and the pipeline goes on as after a first-attempt success; a put
\* whose 3 attempts failed ends in the handler, which marks the job failed
\* with an INTERNAL_ERROR message and writes none of the artifact keys
C15_RetryAtMostThreeTimes ==
    /\ [](\A w \in Workers :
             /\ wtry[w] + 1 <= 3
             /\ wtry[w] > 0 => pc[w] \in {"fetch", "put_result", "put_csv", "put_xlsx"})
    /\ [][\A w \in Workers :
            /\ (pc'[w] = pc[w] /\ wtry'[w] # wtry[w]) =>
                  /\ wtry'[w] = wtry[w] + 1
                  /\ UNCHANGED <<rows, store, published, werr>>
            /\ (\/ pc[w] = "put_result" /\ pc'[w] = "put_csv"
                \/ pc[w] = "put_csv" /\ pc'[w] = "put_xlsx"
                \/ pc[w] = "put_xlsx" /\ pc'[w] = "mark_succeeded"
                \/ pc[w] = "fetch" /\ pc'[w] = "simulate") =>
                  /\ wtry'[w] = 0
                  /\ UNCHANGED <<rows, werr>>
            /\ (pc[w] = "put_result" /\ pc'[w] = "put_csv") =>
                  store' = store \cup {ResultKey(wjob[w])}
            /\ (pc[w] = "put_csv" /\ pc'[w] = "put_xlsx") =>
                  store' = store \cup {CsvKey(wjob[w])}
            /\ (pc[w] = "put_xlsx" /\ pc'[w] = "mark_succeeded") =>
                  store' = store \cup {XlsxKey(wjob[w])}
            /\ (pc[w] \in {"put_result", "put_csv", "put_xlsx"}
                   /\ pc'[w] = "mark_failed") =>
                  /\ wtry[w] + 1 = 3
                  /\ HasCode(werr'[w], "INTERNAL_ERROR: ")
                  /\ UNCHANGED <<rows, store>>
            /\ (/\ pc[w] = "mark_failed"
                /\ pc'[w] \notin {"mark_failed", "down"}
                /\ werr[w] = InternalError("put")
                /\ get(rows[wjob[w]])
                /\ rows[wjob[w]].status \notin TerminalStatuses) =>
                  /\ rows'[wjob[w]].status = FAILED
                  /\ HasCode(rows'[wjob[w]].error_message, "INTERNAL_ERROR: ")
                  /\ KeysOf(rows'[wjob[w]]) = KeysOf(rows[wjob[w]])]_vars

\* the result object was stored and the three attempts of the next put
\* failed: the job is failed and its row names no artifact
C15_Witness ==
    \E j \in Jobs :
       /\ rows[j].status = FAILED
       /\ rows[j].error_message = InternalError("put")
       /\ KeysOf(rows[j]) = <<NoKey, NoKey, NoKey>>
       /\ ResultKey(j) \in store
       /\ CsvKey(j) \notin store

\* ---------------------------------------------------------------- C16
\* a field of the request that carries a value: not null, not blank
C16_Given(value) == value \notin {None, "", " "}

\* the scenario of the request fails validation as the claim lists it, or the
\* request names an unknown dataset
C16_Refused(request) ==
    \/ \E i \in DOMAIN request.body.purchases :
          LET item == request.body.purchases[i]
          IN  C16_Given(item.expected_calving_date) = C16_Given(item.days_pregnant)
    \/ /\ C16_Given(request.body.future_date)
       /\ SubSeq(request.body.future_date, 9, 10) # "01"
    \/ /\ request.body.purchase_policy # "manual"
       /\ request.body.purchases # <<>>
    \/ request.dataset_row = "None"

\* C16: a submission whose scenario fails validation (an item with both or
\* neither of expected_calving_date and days_pregnant, a future_date that is
\* not a first day of a month, purchases with a non-manual policy) or that
\* names an unknown dataset is answered with an error, creates no row and
\* leaves nothing to push onto the queue; a queued row carries the scenario
\* of a submission that passed validation
C16_ValidationKeepsQueueClean ==
    /\ [](\A j \in Jobs :
            rows[j].status = QUEUED =>
               /\ params_json[j] # NoParams
               /\ ~C16_Refused([body |-> params_json[j], dataset_row |-> "row"]))
    /\ [][lastRequest'.n # lastRequest.n /\ C16_Refused(lastRequest') =>
             /\ lastRequest'.status_code \in {404, 422}
             /\ UNCHANGED <<rows, queue, pending, params_json>>]_vars

\* a submission was accepted and its row is queued with a purchase item, and
\* the next one, for an unknown dataset, was refused
C16_Witness ==
    /\ lastRequest.n = 2
    /\ lastRequest.status_code = 404
    /\ \E j \in Jobs :
          /\ rows[j].status = QUEUED
          /\ params_json[j].purchases # <<>>
          /\ j \in pending

\* ---------------------------------------------------------------- C17
\* the result a newly started worker process builds from the same arguments
C17_FreshResult(args) ==
    LET report_date == resolve_dataset_start_date(args.csv)
        dates == target_dates_of(report_date, args.params)
        fresh == [i \in 1..args.params.mc_runs |->
                     _build_run_outputs(args.csv, args.csv, seed_of(i - 1),
                                        report_date, dates)]
    IN  _build_result_from_runs(fresh, args.params.mc_runs, args.params)

\* C17: the result is a function of the dataset and the scenario only: the
\* final result of an execution, whatever the worker process has executed
\* before, is the result a newly started process builds from the same
\* dataset, scenario and master seed
C17_ResultFunctionOfInputs ==
    fpc = "done" => fresult = C17_FreshResult(fin)

\* ---------------------------------------------------------------- C18
\* C18: a result built when exactly one run has completed has no low and no
\* high series and its series_p50 is the rows of that run; the low and high
\* series are present only when at least two runs have completed
C18_OneRunHasNoBands ==
    fresult # NoneObj =>
       /\ fcompleted_runs = 1 =>
             /\ fresult.series_p10 = NoneObj
             /\ fresult.series_p90 = NoneObj
             /\ fresult.series_p50 = [points |-> fruns[1]]
       /\ fresult.series_p10 # NoneObj => fcompleted_runs >= 2
       /\ fresult.series_p90 # NoneObj => fcompleted_runs >= 2

\* ---------------------------------------------------------------- C19
C19_Keys ==
    {"milking_count", "dry_count", "heifer_count", "pregnant_heifer_count",
     "avg_days_in_milk"}

\* the values of one key at one snapshot index over the runs, in order
C19_Sample(idx, key) ==
    sort_values(SelectSeq([r \in DOMAIN fruns |-> fruns[r][idx][key]],
                          LAMBDA v : v # NoNumber))

\* C19: in a result aggregated from at least two runs, for every confidence
\* fraction, at every snapshot index and for each of the four head counts and
\* the average days in milk, low value <= P50 value <= high value, the head
\* counts being rounded to integers; the same order holds between the three
\* quantiles _quantile takes of the sample
C19_QuantilesOrdered ==
    (fpc = "done" /\ Len(fruns) >= 2) =>
       \A idx \in DOMAIN fresult.series_p50.points, key \in C19_Keys :
          /\ fresult.series_p10.points[idx][key] <= fresult.series_p50.points[idx][key]
          /\ fresult.series_p50.points[idx][key] <= fresult.series_p90.points[idx][key]
          /\ (fresult.series_p50.points[idx][key] = NoNumber
                 <=> C19_Sample(idx, key) = <<>>)
          /\ _quantile(C19_Sample(idx, key), lower_q(fin.params))
                <= _quantile(C19_Sample(idx, key), 500)
          /\ _quantile(C19_Sample(idx, key), 500)
                <= _quantile(C19_Sample(idx, key), upper_q(fin.params))

\* three runs aggregated at confidence 0.50: the three head counts differ at
\* an index, and a low value was rounded from a half
C19_Witness ==
    /\ fpc = "done"
    /\ Len(fruns) = 3
    /\ fin.params.confidence_central = 50
    /\ \E idx \in DOMAIN fresult.series_p50.points :
          /\ fresult.series_p10.points[idx].milking_count
                < fresult.series_p50.points[idx].milking_count
          /\ fresult.series_p50.points[idx].milking_count
                < fresult.series_p90.points[idx].milking_count
          /\ \E key \in C19_Keys \ {"avg_days_in_milk"} :
                2 * (percentile([r \in DOMAIN fruns |-> float(fruns[r][idx][key])],
                                lower_q(fin.params)) % Unit) = Unit

\* ---------------------------------------------------------------- C20
\* months since year 0 of a date
C20_MonthIndex(d) == d[1] * 12 + (d[2] - 1)

\* C20: every run of a forecast returns its rows over the date vector fixed
\* before the runs start: the report date, then the first day of each of the
\* next horizon_months months; horizon_months + 1 dates, strictly increasing;
\* the rows at one index of all runs carry the date of that index
C20_SameDateVector ==
    fpc \in {"batches", "done"} =>
       /\ Len(ftarget_dates) = fin.params.horizon_months + 1
       /\ ftarget_dates[1] = resolve_dataset_start_date(fin.csv)
       /\ \A i \in 2..Len(ftarget_dates) :
             /\ ftarget_dates[i][3] = 1
             /\ ftarget_dates[i][2] \in 1..12
             /\ C20_MonthIndex(ftarget_dates[i])
                   = C20_MonthIndex(ftarget_dates[1]) + (i - 1)
       /\ \A i \in 1..(Len(ftarget_dates) - 1) :
             \/ ftarget_dates[i][1] < ftarget_dates[i + 1][1]
             \/ /\ ftarget_dates[i][1] = ftarget_dates[i + 1][1]
                /\ ftarget_dates[i][2] < ftarget_dates[i + 1][2]
             \/ /\ ftarget_dates[i][1] = ftarget_dates[i + 1][1]
                /\ ftarget_dates[i][2] = ftarget_dates[i + 1][2]
                /\ ftarget_dates[i][3] < ftarget_dates[i + 1][3]
       /\ \A r \in DOMAIN fruns :
             /\ Len(fruns[r]) = Len(ftarget_dates)
             /\ \A i \in DOMAIN ftarget_dates : fruns[r][i].date = ftarget_dates[i]

\* two runs over the dates that follow a report date of December 31, with a
\* future_date inside the horizon
C20_Witness ==
    /\ fpc = "done"
    /\ Len(fruns) = 2
    /\ fin.csv = "dB"
    /\ fin.params.horizon_months = 2
    /\ fin.params.future_date = <<2026, 1, 1>>
    /\ ftarget_dates = <<<<2025, 12, 31>>, <<2026, 1, 1>>, <<2026, 2, 1>>>>

\* ---------------------------------------------------------------- C21
\* the future_date of the execution is a first day of a month, not before the
\* report date and not after the first day of the last month of the horizon
C21_InRange ==
    LET report_date == resolve_dataset_start_date(fin.csv)
        m == fin.params.future_date[1] * 12 + fin.params.future_date[2]
        m0 == report_date[1] * 12 + report_date[2]
    IN  /\ fin.params.future_date[3] = 1
        /\ m0 < m \/ fin.params.future_date = report_date
        /\ m <= m0 + fin.params.horizon_months

C23_SkippedFor(skipped, reason) ==
    {skipped[k].id : k \in {n \in 1..Len(skipped) : skipped[n].reason = reason}}

\* the response of a request that repeats the list of the request before it
C23_Repeated ==
    /\ bulk.call >= 2
    /\ bulk.previous # NoneObj
    /\ bulk.ids = bulk.previous.ids

C23_SecondResponse ==
    (C23_Repeated /\ bulk.pc = "responded") =>
        /\ bulk.deleted_ids = <<>>
        /\ \A id \in {bulk.previous.deleted_ids[k] :
                        k \in 1..Len(bulk.previous.deleted_ids)}
                     \cup C23_SkippedFor(bulk.previous.skipped, "NOT_FOUND") :
              id \in C23_SkippedFor(bulk.skipped, "NOT_FOUND")

C23_Step ==
    /\ C23_Repeated => rows' = rows
    /\ (/\ bulk.pc = "loop"
        /\ bulk.i <= Len(bulk.ids)
        /\ get_for_owner(bulk.ids[bulk.i], CurrentUser)
        /\ rows[bulk.ids[bulk.i]].status \in {QUEUED, RUNNING})
       => /\ rows' = rows
          /\ bulk'.deleted_ids = bulk.deleted_ids
          /\ bulk'.skipped = Append(bulk.skipped,
                 BulkDeleteSkipItem(bulk.ids[bulk.i], "JOB_ACTIVE"))

\* C23: a second bulk delete of the same list soft-deletes nothing, returns
\* no deleted id and reports NOT_FOUND for every id the first one deleted or
\* did not find; a queued or running job is skipped with JOB_ACTIVE and its
\* row is never soft-deleted
C23_BulkDeleteIdempotent ==
    /\ [](C23_SecondResponse
          /\ \A j \in Jobs : rows[j].status \in {QUEUED, RUNNING}
                                => rows[j].deleted_at = NoTime)
    /\ [][C23_Step]_vars

\* the list <<j1, j2>> sent twice: j1 was deleted and j2 was active the first
\* time, the second response deletes nothing
C23_Witness ==
    /\ bulk.pc = "responded"
    /\ C23_Repeated
    /\ bulk.ids = <<"j1", "j2">>
    /\ bulk.previous.deleted_ids = <<"j1">>
    /\ "j2" \in C23_SkippedFor(bulk.previous.skipped, "JOB_ACTIVE")
    /\ rows["j2"].status = RUNNING
    /\ bulk.deleted_ids = <<>>
    /\ bulk.skipped = <<BulkDeleteSkipItem("j1", "NOT_FOUND"),
                        BulkDeleteSkipItem("j2", "JOB_ACTIVE")>>

\* ---------------------------------------------------------------- C24
\* the fields of the item that are present once blank strings count as absent
C24_Present(item) ==
    {f \in {"expected_calving_date", "days_pregnant"} :
        item[f] # None /\ item[f] \notin {"", " "}}

\* the last request carries one manual purchase item, and nothing but the
\* choice between its two fields can refuse its scenario
C24_OneItem ==
    /\ lastRequest.n > 0
    /\ Len(lastRequest.body.purchases) = 1
    /\ lastRequest.body.purchase_policy = "manual"
    /\ lastRequest.body.future_date \in {None, "", "2026-03-01"}
    /\ lastRequest.body.purchases[1].count = 1
    /\ lastRequest.body.purchases[1].days_pregnant # "300"

C22_Having(herd, statuses) ==
    Cardinality({i \in 1..Len(herd) : herd[i].status \in statuses})

\* the snapshot step_day has just recorded
C22_Recorded ==
    /\ sim # NoneObj
    /\ sim.history # <<>>
    /\ sim.history[Len(sim.history)].day = sim.today - 1

\* C22: in the snapshot a day records, a cow of the herd is counted in one
\* and only one of milking, dry, heifer and pregnant heifer, a culled cow in
\* none: the four counts add up to the number of cows that are not culled,
\* and no count of any snapshot is negative
C22_SnapshotPartition ==
    /\ C22_Recorded =>
         LET m == sim.history[Len(sim.history)]
         IN  /\ m.milking_count = C22_Having(sim.herd,
                                     {"fresh", "ready_for_breeding", "pregnant"})
             /\ m.dry_count = C22_Having(sim.herd, {"dry"})
             /\ m.heifer_count = C22_Having(sim.herd, {"heifer"})
             /\ m.pregnant_heifer_count = C22_Having(sim.herd, {"pregnant_heifer"})
             /\ m.milking_count + m.dry_count + m.heifer_count
                  + m.pregnant_heifer_count
                  = Len(sim.herd) - C22_Having(sim.herd, {"culled"})
    /\ sim # NoneObj =>
         \A k \in 1..Len(sim.history) :
            /\ sim.history[k].milking_count >= 0
            /\ sim.history[k].dry_count >= 0
            /\ sim.history[k].heifer_count >= 0
            /\ sim.history[k].pregnant_heifer_count >= 0

\* a month start whose snapshot counts a milking cow and a bought heifer,
\* after a cow was culled
C22_Witness ==
    /\ C22_Recorded
    /\ sim.history[Len(sim.history)].milking_count >= 1
    /\ sim.history[Len(sim.history)].pregnant_heifer_count >= 1
    /\ sim.history[Len(sim.history)].culled_count >= 1
    /\ \E k \in 1..Len(sim.archived) : sim.archived[k].status = "culled"

\* ---------------------------------------------------------------- C25
RECURSIVE C25_Planned(_, _)
\* the heads the entries of a plan give for a day
C25_Planned(plan, d) ==
    IF plan = <<>> THEN 0
    ELSE (IF plan[1][1] = d THEN plan[1][2] ELSE 0) + C25_Planned(Tail(plan), d)

\* C25: under the manual policy the heifers a day buys are the heads its plan
\* entries give for that day, none on a day without an entry
C25_ManualPurchasesFollowPlan ==
    (sim # NoneObj /\ sim.purchase_policy.name = "manual"
        /\ sim.today > sim.start_date) =>
       sim._purchases_today = C25_Planned(sim.manual_plan, sim.today - 1)

\* ---------------------------------------------------------------- C26
\* C26: a day leaves the herd with the heads it had, plus the heifers bought,
\* plus the calves that joined it, minus the cows culled that day
C26_HeadCountConserved ==
    [][sim # NoneObj =>
         Len(sim'.herd) = Len(sim.herd) + sim'._purchases_today
                            + sim'._born_today - sim'._culled_today]_vars

C28_Allowed ==
    {<<"heifer", "pregnant_heifer">>, <<"pregnant_heifer", "fresh">>,
     <<"fresh", "ready_for_breeding">>, <<"ready_for_breeding", "pregnant">>,
     <<"pregnant", "dry">>, <<"dry", "fresh">>}
      \cup {<<status, "culled">> :
               status \in {"heifer", "pregnant_heifer", "fresh",
                           "ready_for_breeding", "pregnant", "dry"}}

\* the day of a cow: its status was assigned at most once, along the cycle
C28_OneChange(cow) ==
    /\ cow.changes <= 1
    /\ cow.changes = 1 =>
          <<(IF cow.prev = "new" THEN "pregnant_heifer" ELSE cow.prev),
            cow.status>> \in C28_Allowed
    /\ cow.changes = 0 =>
          cow.status = (IF cow.prev = "new" THEN cow.status ELSE cow.prev)

\* C28: a day changes the status of a cow at most once, and every change is
\* a step of the cycle heifer, pregnant heifer, fresh, ready for breeding,
\* pregnant, dry, fresh, or the culling of a cow that is not culled
C28_OneStepOfTheCycle ==
    sim # NoneObj =>
       /\ \A i \in 1..Len(sim.herd) : C28_OneChange(sim.herd[i])
       /\ \A k \in 1..Len(sim.archived) : C28_OneChange(sim.archived[k])

\* a day on which a dry cow calved and another cow was culled
C28_Witness ==
    /\ sim # NoneObj
    /\ \E i \in 1..Len(sim.herd) :
          /\ sim.herd[i].prev = "dry"
          /\ sim.herd[i].status = "fresh"
          /\ sim.herd[i].changes = 1
    /\ \E k \in 1..Len(sim.archived) :
          /\ sim.archived[k].culled_on = sim.today - 1
          /\ sim.archived[k].changes = 1

\* ---------------------------------------------------------------- C29
\* C29: a cow that conceived in the run has its planned dry date before its
\* planned calving date, and calves on a later day than the day it was dried
\* off; at the end of a day no cow has been ready for breeding for more than
\* max_service_period_after_vwp days
C29_DryBeforeCalving ==
    /\ []((sim # NoneObj /\ sim.today > sim.start_date) =>
            \A i \in 1..Len(sim.herd) :
               LET cow == sim.herd[i]
               IN  /\ (cow.status \in {"pregnant", "dry"}
                         /\ cow.conception_date >= sim.start_date)
                       => /\ cow.planned_dry_date # NoDay
                          /\ cow.planned_dry_date < cow.planned_calving_date
                   /\ cow.status = "ready_for_breeding"
                       => cow.days_in_current_status
                             <= cfg.max_service_period_after_vwp)
    /\ [][sim # NoneObj =>
            \A i \in 1..Len(sim.herd), k \in 1..Len(sim'.herd) :
               (/\ sim.herd[i].obj = sim'.herd[k].obj
                /\ sim.herd[i].status = "dry"
                /\ sim'.herd[k].status = "fresh"
                /\ sim.herd[i].conception_date >= sim.start_date)
               => /\ sim.herd[i].dry_date # NoDay
                  /\ sim.herd[i].dry_date < sim'.herd[k].last_calving_date]_vars

\* a cow that conceived in the run with a dry draw beyond its gestation and
\* was dried off on the day before its planned calving
C29_Witness ==
    /\ sim # NoneObj
    /\ \E i \in 1..Len(sim.herd) :
          /\ sim.herd[i].status = "dry"
          /\ sim.herd[i].conception_date >= sim.start_date
          /\ sim.herd[i].planned_dry_date = sim.herd[i].planned_calving_date - 1
          /\ sim.herd[i].dry_date = sim.herd[i].planned_dry_date

\* ---------------------------------------------------------------- C30
\* C30: the auto_counter policy buys on month starts only, and then the heads
\* its balance is short of; at the end of a day the balance is the size of
\* the herd less its initial size, so after the purchases of a month start
\* the herd is not smaller than the initial herd
C30_AutoCounterRefills ==
    /\ []((sim # NoneObj /\ sim.purchase_policy.name = "auto_counter") =>
            sim.purchase_policy.balance = Len(sim.herd) - sim.initial_size)
    /\ [][(sim # NoneObj /\ sim.purchase_policy.name = "auto_counter") =>
            /\ sim'._purchases_today =
                  (IF is_month_start(sim.today) /\ sim.purchase_policy.balance < 0
                     THEN 0 - sim.purchase_policy.balance ELSE 0)
            /\ is_month_start(sim.today)
                  => sim'._after_purchase >= sim.initial_size]_vars

\* a month start of the auto_counter policy that bought back the two cows
\* culled before it
C30_Witness ==
    /\ sim # NoneObj
    /\ sim.purchase_policy.name = "auto_counter"
    /\ is_month_start(sim.today - 1)
    /\ sim._purchases_today = 2
    /\ sim._after_purchase = sim.initial_size
    /\ sim.purchase_log.auto_counter # <<>>

\* the herd as _record_metrics saw it when it recorded the last snapshot: the
\* metrics are recorded at the end of step_day, before the day advances
C33_AtSnapshot ==
    /\ sim # NoneObj
    /\ sim.history # <<>>
    /\ sim.history[Len(sim.history)].day = sim.today - 1

\* C33: for a cow that calved during the simulation on day t and is in the
\* milking state at a snapshot recorded on day d >= t, the days-in-milk value
\* used in the average of that snapshot is d - t, the number of days elapsed
\* since its last calving.
C33_DaysInMilkSinceCalving ==
    C33_AtSnapshot =>
        \A i \in 1..Len(sim.herd) :
            LET cow == sim.herd[i]
            IN  is_milking(cow) /\ cow.calved_on # NoDay
                    => cow.days_in_milk = (sim.today - 1) - cow.calved_on

RECURSIVE C31_Sum(_, _)
\* the sum of one counter over the events rows of a run
C31_Sum(events, counter) ==
    IF events = <<>> THEN 0
    ELSE Head(events)[counter] + C31_Sum(Tail(events), counter)

\* C31: in monthly reporting mode every cull, calving, dry-off and purchase of
\* a simulated day from the report date to the last snapshot date is counted
\* in exactly one per-month events row of the run output: for each counter
\* the sum over the events rows equals the number of such events in the run,
\* whatever the day-of-month of the report date.
C31_EveryEventInOneRow ==
    run # NoneObj /\ run.pc = "done" =>
        \A counter \in {"culls", "calvings", "dryoffs", "purchases_in"} :
            C31_Sum(run.events, counter) = run.seen[counter]

\* C32: every point of the snapshot sequence of every run, the point at the
\* report date included, has a non-null average days-in-milk, which is 0.0
\* exactly when no animal is milking at that snapshot.
C32_AverageNeverNull ==
    run # NoneObj /\ run.pc = "done" =>
        \A i \in DOMAIN run.rows :
            /\ run.rows[i].avg_days_in_milk # NoNumber
            /\ run.rows[i].avg_days_in_milk = float(0)
                  <=> run.rows[i].milking_count = 0

\* C34: the event-queue engine handles events in non-decreasing (date,
\* sequence) order over the whole run: no event is handled after an event with
\* a later date, and events of equal dates are handled in insertion order,
\* events pushed by handlers during a batch included.
C34_HandledInOrder ==
    engine # NoneObj =>
        \A i, k \in DOMAIN engine.handled :
            i < k => event_lt(engine.handled[i], engine.handled[k])

\* C35: across all pipeline executions of one job id, duplicate queue
\* deliveries and a re-queued execution running beside the original one
\* included, at most one terminal event (job_succeeded or job_failed) is
\* published on the channel of the job.
C35_OneTerminalEvent ==
    \A j \in Jobs :
        Cardinality({e \in published[j] : e.type \in TerminalEventTypes}) <= 1

\* C36: every event the worker publishes agrees with its own status field: a
\* job_succeeded event carries status succeeded and progress_pct 100, a
\* job_failed event status failed and a non-null error_message, a
\* job_progress event status running.
C36_EventAgreesWithStatus ==
    \A j \in Jobs : \A e \in published[j] :
        /\ e.type = "job_succeeded" => e.status = SUCCEEDED /\ e.progress_pct = 100
        /\ e.type = "job_failed" => e.status = FAILED /\ e.error_message # NoText
        /\ e.type = "job_progress" => e.status = RUNNING

\* C37: in every reachable state each job row is consistent: succeeded implies
\* progress_pct 100, completed_runs = total_runs, error_message null and the
\* three artifact keys set; failed implies error_message and finished_at set;
\* queued or running implies finished_at null and no artifact key set;
\* running implies started_at set.
C37_RowConsistent ==
    \A j \in Jobs :
        LET row == rows[j]
        IN  /\ row.status = SUCCEEDED =>
                 /\ row.progress_pct = 100
                 /\ row.completed_runs = row.total_runs
                 /\ row.error_message = NoText
                 /\ \A k \in DOMAIN KeysOf(row) : KeysOf(row)[k] # NoKey
            /\ row.status = FAILED =>
                 row.error_message # NoText /\ row.finished_at # NoTime
            /\ row.status \in {QUEUED, RUNNING} =>
                 /\ row.finished_at = NoTime
                 /\ \A k \in DOMAIN KeysOf(row) : KeysOf(row)[k] = NoKey
            /\ row.status = RUNNING => row.started_at # NoTime

\* ---------------------------------------------------------------- C38
\* the result of the sequential loop in this worker process for the same
\* arguments: run i - 1 with seed_of(i - 1) at position i
C38_Sequential(args) ==
    LET report_date == resolve_dataset_start_date(args.csv)
        dates == target_dates_of(report_date, args.params)
        hazards == hazards_of(args.temp_path, args.csv)
        seq == [i \in 1..args.params.mc_runs |->
                   _build_run_outputs(args.csv, hazards, seed_of(i - 1),
                                      report_date, dates)]
    IN  _build_result_from_runs(seq, args.params.mc_runs, args.params)

\* C38: the final result of an execution does not depend on how its runs are
\* executed: whatever parallel_enabled and batch_size are, it is the result
\* the sequential loop yields for the same dataset and scenario, run i with
\* seed master_seed + 9973 * i aggregated at position i
C38_SameAsSequential ==
    fpc = "done" => fresult = C38_Sequential(fin)

\* ---------------------------------------------------------------- C39
\* an empty list, or a list with a single value
C39_Degenerate(values) == Len(values) <= 1

\* C39: building the theoretical samplers from the empirical lists never
\* raises an error, and for a degenerate list of first-insemination ages, of
\* service periods or of days to dry (empty, or a single value) the sampler
\* of that list is built from default parameters
C39_DegenerateFallsBack ==
    (samplers # NoneObj /\ samplers.pc = "done") =>
       /\ samplers.out.raised = None
       /\ C39_Degenerate(samplers.ages) => samplers.out.age_sampler.fit = "default"
       /\ C39_Degenerate(samplers.service_periods) =>
             samplers.out.sp_sampler.fit = "default"
       /\ C39_Degenerate(samplers.days_to_dry) =>
             samplers.out.dtd_sampler \in
                {dry_sampler(<<>>),
                 [kind |-> "MixtureDrySampler", p_peak |-> float(1),
                  mu_peak |-> float(220), sigma_peak |-> float(5),
                  peak_lo |-> 210, peak_hi |-> 239, tail_lo |-> 34,
                  tail_hi |-> 199]}

\* ---------------------------------------------------------------- C40
\* the stratum of an animal under a grouping
C40_Stratum(animal, grouping) ==
    grp_row([lact |-> animal.lactation_no, status |-> animal.status], grouping)

\* the animals of stratum g alive on the report date or culled within the
\* look-back window
C40_Size(df, g, grouping, report_date) ==
    grp_count({r \in df : \/ r.archive = NoDay
                          \/ r.archive > report_date
                          \/ /\ r.archive >= report_date - CullWindowDays
                             /\ r.archive <= report_date},
              g, grouping)

\* C40: in the estimated culling policy every stratum of the dataset with
\* fewer than 30 animals (alive on the report date plus culled within the
\* 730 days before it) has the configured fallback monthly hazard, not zero
\* and not an estimate, and an animal whose stratum has no estimate is
\* sampled with the fallback hazard
C40_FallbackFloor ==
    (cull_policy # NoneObj /\ cull_policy.pc # "args") =>
       LET p == cull_policy
           size(g) == C40_Size(p.df, g, p.grouping, p.report_date)
           strata == {grp_row(r, p.grouping) : r \in p.df}
       IN  /\ p.estimate_from_dataset =>
                \A g \in strata :
                   size(g) < MinStratum =>
                      /\ g \in DOMAIN p.monthly_hazard_by_group
                      /\ p.monthly_hazard_by_group[g] = p.fallback_monthly_hazard
           /\ p.pc = "sampled" =>
                LET g == C40_Stratum(p.animal, p.grouping)
                IN  (~p.estimate_from_dataset \/ g \notin strata
                        \/ size(g) < MinStratum) =>
                       /\ p.hazard = p.fallback_monthly_hazard
                       /\ p.d \in sample_cull_date(p.fallback_monthly_hazard,
                                     p.report_date,
                                     p.report_date + MaxHorizon * MonthLen)

\* a first-lactation cow sampled a cull date with the fallback hazard: its
\* stratum holds 29 animals, 15 of them culled inside the window, while the
\* large stratum of older cows has an estimate
C40_Witness ==
    /\ cull_policy # NoneObj
    /\ cull_policy.pc = "sampled"
    /\ cull_policy.estimate_from_dataset
    /\ cull_policy.grouping = "lactation"
    /\ cull_policy.fallback_monthly_hazard > 0
    /\ cull_policy.animal.lactation_no = 1
    /\ C40_Size(cull_policy.df, "L1", "lactation", cull_policy.report_date) = MinStratum - 1
    /\ \E r \in cull_policy.df : r.lact = 1 /\ r.archive = cull_policy.report_date - CullWindowDays /\ r.n = 15
    /\ cull_policy.hazard = cull_policy.fallback_monthly_hazard
    /\ cull_policy.d # NoDay
    /\ "L4+" \in DOMAIN cull_policy.monthly_hazard_by_group
    /\ cull_policy.monthly_hazard_by_group["L4+"] # cull_policy.fallback_monthly_hazard
====
